---- MODULE Spec2Model ----
(***************************************************************************)
(* Patent pipeline: PatentCleaner.clean, PatentCleaner.merge_with_existing *)
(* and the update run of app.py that drives them (upload, extract, clean,  *)
(* load, merge, save).                                                     *)
(*                                                                         *)
(* A text value is a sequence of one-character strings; the pandas missing *)
(* value is the one-element sequence NaN.  A row of a DataFrame is a       *)
(* record with the columns ApplicationNumber, Title, ApplicationDate,      *)
(* PatentYear, ResourceId, Source.  The name columns (Applicants,          *)
(* Inventors, Owners) are rewritten cell by cell, independently of the     *)
(* other columns; CellSpec follows one such cell through the cleaner.      *)
(***************************************************************************)
EXTENDS Integers, Sequences, FiniteSets, TLC

VARIABLES
    pc,             \* position of the update run: "idle", "cleaned", "merged"
    upload,         \* rows of data/temp_upload.xlsx
    upload_exists,  \* whether data/temp_upload.xlsx exists
    master,         \* rows of data/master_patents.xlsx
    master_exists,  \* whether data/master_patents.xlsx exists
    alt_exists,     \* whether a master_patents_updated_*.xlsx was written
    backup,         \* rows of the last master_patents_backup_*.xlsx written
    backup_exists,  \* whether a backup file was written
    patents,        \* all_patents: the batch handed to clean()
    cleaned_df,     \* the DataFrame clean() returned
    loaded,         \* whether load_existing returned a DataFrame (not None)
    existing_df,    \* the DataFrame load_existing returned
    merged_df,      \* the DataFrame handed to save()
    stats,          \* PatentCleaner.stats
    new_added,      \* stats['new_added'] of the run
    success,        \* what loader.save returned
    runs,           \* update runs started
    raw,            \* one cell of a name column as extracted or uploaded
    field,          \* that cell as the cleaner has rewritten it so far
    phase,          \* how far the cell is: "extracted", "cleaned", "loaded",
                    \* "standardized", "merged" ("none": no cell followed)
    party,          \* an applicant or owner of a Lens record: name, residence,
                    \* country
    calls,          \* the classifiers that have been called on the party
    organization,   \* what _is_organization returned
    qatar,          \* what _is_qatar_organization returned
    lens_pc,        \* position of search_patents: "request", "sleep",
                    \* "returned" ("none": not called)
    max_results,    \* its argument max_results
    all_patents,    \* its list all_patents
    offset,         \* its local offset
    lens_stats,     \* LensExtractor.stats: searched, errors
    state,          \* PipelineState.state
    now             \* the clock datetime.now() reads

run_vars == <<pc, upload, upload_exists, master, master_exists, alt_exists,
              backup, backup_exists, patents, cleaned_df, loaded, existing_df,
              merged_df, stats, new_added, success, runs>>

cell_vars == <<raw, field, phase>>

party_vars == <<party, calls, organization, qatar>>

search_vars == <<lens_pc, max_results, all_patents, offset, lens_stats>>

history_vars == <<state, now>>

\* what the update run and clean() leave alone
aux_vars == <<cell_vars, party_vars, search_vars, history_vars>>

vars == <<run_vars, aux_vars>>

(***************************************************************************)
(* Bounds of the model and constants of the program.                       *)
(***************************************************************************)
MaxBatch == 2

MaxRuns == 1

TitleKeyLen == 100

ResourceIdFloor == 50000

MergeDefaultMaxId == 50000

(***************************************************************************)
(* Text.                                                                   *)
(***************************************************************************)
NaN == <<"NaN">>

isna(x) == x = NaN

Min(a, b) == IF a < b THEN a ELSE b

\* the letters str.lower(), str.upper(), str.isupper() and str.isalpha() act on
Lowers ==
    <<"a", "b", "c", "d", "e", "f", "g", "h", "i", "j", "k", "l", "m", "n",
      "o", "p", "q", "r", "s", "t", "u", "v", "w", "x", "y", "z">>

Uppers ==
    <<"A", "B", "C", "D", "E", "F", "G", "H", "I", "J", "K", "L", "M", "N",
      "O", "P", "Q", "R", "S", "T", "U", "V", "W", "X", "Y", "Z">>

LowerSet == {Lowers[i] : i \in 1..Len(Lowers)}

UpperSet == {Uppers[i] : i \in 1..Len(Uppers)}

Letters == LowerSet \cup UpperSet

Digits == {"0", "1", "2", "3", "4", "5", "6", "7", "8", "9"}

\* the characters str.strip(), str.split() and \s take as whitespace
Whitespace == {" ", "\t"}

ToLower ==
    [c \in UpperSet |-> Lowers[CHOOSE i \in 1..Len(Uppers) : Uppers[i] = c]]

ToUpper ==
    [c \in LowerSet |-> Uppers[CHOOSE i \in 1..Len(Lowers) : Lowers[i] = c]]

\* str.lower() / str.upper(), one character
LowerChar(c) == IF c \in UpperSet THEN ToLower[c] ELSE c

UpperChar(c) == IF c \in LowerSet THEN ToUpper[c] ELSE c

str_lower(s) == [i \in 1..Len(s) |-> LowerChar(s[i])]

str_upper(s) == [i \in 1..Len(s) |-> UpperChar(s[i])]

\* s[:n]
Prefix(s, n) == SubSeq(s, 1, Min(n, Len(s)))

\* str.replace(c, '')
Remove(s, c) == SelectSeq(s, LAMBDA ch : ch # c)

\* str.strip(): whitespace removed at both ends
RECURSIVE LStrip(_)
LStrip(s) ==
    IF s # <<>> /\ Head(s) \in Whitespace THEN LStrip(Tail(s)) ELSE s

RECURSIVE RStrip(_)
RStrip(s) ==
    IF s # <<>> /\ s[Len(s)] \in Whitespace
    THEN RStrip(SubSeq(s, 1, Len(s) - 1))
    ELSE s

str_strip(s) == RStrip(LStrip(s))

\* str.strip(chars)
RECURSIVE strip_chars(_, _)
strip_chars(s, chars) ==
    IF s # <<>> /\ Head(s) \in chars THEN strip_chars(Tail(s), chars)
    ELSE IF s # <<>> /\ s[Len(s)] \in chars
         THEN strip_chars(SubSeq(s, 1, Len(s) - 1), chars)
         ELSE s

\* str.split(c): the pieces between the occurrences of c, empty ones kept
RECURSIVE str_split(_, _)
str_split(s, c) ==
    IF \A i \in 1..Len(s) : s[i] # c THEN <<s>>
    ELSE LET i == CHOOSE k \in 1..Len(s) :
                      s[k] = c /\ \A j \in 1..(k - 1) : s[j] # c
         IN  <<SubSeq(s, 1, i - 1)>> \o str_split(SubSeq(s, i + 1, Len(s)), c)

\* str.split(): the runs of non-whitespace characters
RECURSIVE split_words(_)
split_words(s) ==
    LET t == LStrip(s)
        n == CHOOSE k \in 0..Len(t) :
                 /\ \A j \in 1..k : t[j] \notin Whitespace
                 /\ k < Len(t) => t[k + 1] \in Whitespace
    IN  IF t = <<>> THEN <<>>
        ELSE <<SubSeq(t, 1, n)>> \o split_words(SubSeq(t, n + 1, Len(t)))

\* sep.join(parts)
RECURSIVE str_join(_, _)
str_join(parts, sep) ==
    IF parts = <<>> THEN <<>>
    ELSE IF Len(parts) = 1 THEN parts[1]
    ELSE parts[1] \o sep \o str_join(Tail(parts), sep)

\* str.isupper(): a cased character, and no lower-case one
isupper(s) ==
    /\ \E i \in 1..Len(s) : s[i] \in UpperSet
    /\ \A i \in 1..Len(s) : s[i] \notin LowerSet

\* str.isalpha()
isalpha(s) == s # <<>> /\ \A i \in 1..Len(s) : s[i] \in Letters

\* str.title(): upper case after a character without case, lower case after
\* a letter
str_title(s) ==
    [i \in 1..Len(s) |->
        IF i > 1 /\ s[i - 1] \in Letters THEN LowerChar(s[i])
        ELSE UpperChar(s[i])]

\* the rows of seq at the indices in keep, in their order
FilterIdx(seq, keep) ==
    LET F[n \in 0..Len(seq)] ==
            IF n = 0 THEN <<>>
            ELSE IF n \in keep THEN Append(F[n - 1], seq[n]) ELSE F[n - 1]
    IN  F[Len(seq)]

\* drop_duplicates keeping the last row of every key instead of the first
drop_duplicates_keep_last(df, column) ==
    FilterIdx(df, {i \in 1..Len(df) :
                      \A j \in (i + 1)..Len(df) : column[j] # column[i]})

\* DataFrame.drop_duplicates(subset=[column], keep='first'), the column given
\* as the sequence of its values
drop_duplicates(df, column) ==
    FilterIdx(df, {i \in 1..Len(df) :
                      \A j \in 1..(i - 1) : column[j] # column[i]})

\* Series.max() over ResourceId
RECURSIVE SeqMax(_)
SeqMax(s) ==
    IF Len(s) = 1 THEN s[1]
    ELSE LET m == SeqMax(Tail(s)) IN IF s[1] > m THEN s[1] ELSE m

ResourceIds(df) == [i \in 1..Len(df) |-> df[i].ResourceId]

\* pd.read_excel of what to_excel wrote: an empty cell comes back missing
read_excel(rows) ==
    [i \in 1..Len(rows) |->
        [rows[i] EXCEPT
            !.ApplicationNumber = IF @ = <<>> THEN NaN ELSE @,
            !.Title = IF @ = <<>> THEN NaN ELSE @,
            !.ApplicationDate = IF @ = <<>> THEN NaN ELSE @,
            !.PatentYear = IF @ = <<>> THEN NaN ELSE @]]

(***************************************************************************)
(* PatentCleaner.                                                          *)
(***************************************************************************)
\* the characters of the ranges u0400-u04FF, u4e00-u9fff, uac00-ud7af,
\* u0600-u06FF that the model's titles use
NonEnglishChars == {"U0416", "U4E2D"}

\* _clean_text_fields.clean_text
clean_text(value) ==
    IF isna(value) \/ value = <<>> THEN <<>> ELSE str_strip(value)

_clean_text_fields(df) ==
    [i \in 1..Len(df) |->
        [df[i] EXCEPT !.Title = clean_text(@),
                      !.ApplicationNumber = clean_text(@)]]

\* the mask of _remove_non_english
non_english(row) ==
    IF isna(row.Title) THEN FALSE
    ELSE \E i \in 1..Len(row.Title) : row.Title[i] \in NonEnglishChars

_remove_non_english(df) == SelectSeq(df, LAMBDA row : ~non_english(row))

isdigit(s) == s # <<>> /\ \A i \in 1..Len(s) : s[i] \in Digits

\* _format_dates.format_date: YYYYMMDD becomes YYYY-MM-DD
format_date(d) ==
    IF isna(d) \/ d = <<>> THEN <<>>
    ELSE LET s == str_strip(d)
         IN  IF Len(s) = 8 /\ isdigit(s)
             THEN SubSeq(s, 1, 4) \o <<"-">> \o SubSeq(s, 5, 6) \o <<"-">>
                      \o SubSeq(s, 7, 8)
             ELSE s

\* df['PatentYear'] = df['ApplicationDate'].str[:4], after format_date
_format_dates(df) ==
    [i \in 1..Len(df) |->
        [df[i] EXCEPT !.ApplicationDate = format_date(@),
                      !.PatentYear = Prefix(format_date(df[i].ApplicationDate),
                                            4)]]

\* Title.str.lower().str[:100]; a missing title stays missing
title_norm(title) ==
    IF isna(title) THEN NaN ELSE Prefix(str_lower(title), TitleKeyLen)

_deduplicate(df) ==
    LET by_app ==
            drop_duplicates(df,
                [i \in 1..Len(df) |-> df[i].ApplicationNumber])
    IN  drop_duplicates(by_app,
            [i \in 1..Len(by_app) |-> title_norm(by_app[i].Title)])

\* range(50000, 50000 + len(df)) as the ResourceId column
_add_standard_columns(df) ==
    [i \in 1..Len(df) |->
        [ApplicationNumber |-> df[i].ApplicationNumber,
         Title |-> df[i].Title,
         ApplicationDate |-> df[i].ApplicationDate,
         PatentYear |-> df[i].PatentYear,
         Source |-> df[i].Source,
         ResourceId |-> ResourceIdFloor + (i - 1)]]

\* the DataFrame clean() returns
clean(batch) ==
    _add_standard_columns(
        _deduplicate(
            _format_dates(_clean_text_fields(_remove_non_english(batch)))))

\* duplicates counted against the batch, the non-English records included
clean_stats_from_batch(batch) ==
    LET english == _remove_non_english(batch)
        deduped == _deduplicate(_clean_text_fields(english))
    IN  [input_count |-> Len(batch),
         non_english_removed |-> Len(batch) - Len(english),
         duplicates_removed |-> Len(batch) - Len(deduped),
         output_count |-> Len(deduped)]

\* self.stats after clean()
clean_stats(batch) ==
    LET english == _remove_non_english(batch)
        cleaned == _clean_text_fields(english)
        deduped == _deduplicate(cleaned)
    IN  [input_count |-> Len(batch),
         non_english_removed |-> Len(batch) - Len(english),
         duplicates_removed |-> Len(cleaned) - Len(deduped),
         output_count |-> Len(deduped)]

\* merge_with_existing.normalize_app_num
normalize_app_num(x) ==
    IF isna(x) THEN <<>>
    ELSE str_strip(str_upper(Remove(Remove(Remove(x, " "), "."), "-")))

\* set(existing_df['_norm_app'])
existing_apps(existing) ==
    {normalize_app_num(existing[i].ApplicationNumber) : i \in 1..Len(existing)}

\* set(existing_df['_norm_title'].dropna())
existing_titles(existing) ==
    {title_norm(existing[i].Title) : i \in 1..Len(existing)} \ {NaN}

\* is_truly_new with the two key sets exchanged
is_truly_new_swapped(row, apps, titles) ==
    ~(normalize_app_num(row.ApplicationNumber) \in titles
      \/ title_norm(row.Title) \in apps)

\* is_truly_new with "and" for "or": a duplicate only when both keys match
is_truly_new_both(row, apps, titles) ==
    ~(normalize_app_num(row.ApplicationNumber) \in apps
      /\ title_norm(row.Title) \in titles)

\* the mask over new_df: neither key is among the existing ones
is_truly_new(row, apps, titles) ==
    ~(normalize_app_num(row.ApplicationNumber) \in apps
      \/ title_norm(row.Title) \in titles)

truly_new_rows(new_df, existing) ==
    SelectSeq(new_df,
        LAMBDA row : is_truly_new(row, existing_apps(existing),
                                  existing_titles(existing)))

\* max_id taken from the last row instead of the largest ResourceId
max_id_last_row(existing) ==
    IF Len(existing) > 0 THEN existing[Len(existing)].ResourceId
    ELSE MergeDefaultMaxId

\* max_id taken from the number of rows instead of the largest ResourceId
max_id_by_count(existing) == MergeDefaultMaxId + Len(existing)

max_id(existing) ==
    IF Len(existing) > 0 THEN SeqMax(ResourceIds(existing))
    ELSE MergeDefaultMaxId

\* assign_resource_ids starting at max_id instead of max_id + 1
assign_resource_ids_from_max(truly_new, maxid) ==
    [k \in 1..Len(truly_new) |->
        [truly_new[k] EXCEPT !.ResourceId = maxid + (k - 1)]]

\* truly_new['ResourceId'] = range(max_id + 1, max_id + 1 + len(truly_new))
assign_resource_ids(truly_new, maxid) ==
    [k \in 1..Len(truly_new) |->
        [truly_new[k] EXCEPT !.ResourceId = maxid + k]]

\* new_df['_norm_app'] = ..., new_df['_norm_title'] = ...: the two helper
\* columns are set on the DataFrame the caller passed
add_norm_columns(new_df) ==
    [i \in 1..Len(new_df) |->
        [ApplicationNumber |-> new_df[i].ApplicationNumber,
         Title |-> new_df[i].Title,
         ApplicationDate |-> new_df[i].ApplicationDate,
         PatentYear |-> new_df[i].PatentYear,
         Source |-> new_df[i].Source,
         ResourceId |-> new_df[i].ResourceId,
         _norm_app |-> normalize_app_num(new_df[i].ApplicationNumber),
         _norm_title |-> title_norm(new_df[i].Title)]]

\* combined.drop(columns=['_norm_app', '_norm_title'])
drop_norm_columns(df) ==
    [i \in 1..Len(df) |->
        [ApplicationNumber |-> df[i].ApplicationNumber,
         Title |-> df[i].Title,
         ApplicationDate |-> df[i].ApplicationDate,
         PatentYear |-> df[i].PatentYear,
         Source |-> df[i].Source,
         ResourceId |-> df[i].ResourceId]]

\* combine that also removes duplicates from the concatenation
combine_dedup(existing, truly_new) ==
    _deduplicate(_clean_text_fields(drop_norm_columns(existing \o truly_new)))

\* pd.concat([existing_df, truly_new]), without the helper columns, and the
\* final pass over it
combine(existing, truly_new) ==
    _clean_text_fields(drop_norm_columns(existing \o truly_new))

merge_with_existing(new_df, existing) ==
    LET existing_std == _clean_text_fields(existing)
        truly_new == truly_new_rows(new_df, existing_std)
    IN  combine(existing_std,
                assign_resource_ids(truly_new, max_id(existing_std)))

(***************************************************************************)
(* Regular expressions (module re): a compiled pattern is a record whose   *)
(* field t names its kind.  Ends(r, s, P) is the set of positions at which *)
(* a match of r that starts at a position of P can end.                    *)
(***************************************************************************)
WordChars == Letters \cup Digits \cup {"_"}

Lit(s) == [t |-> "lit", s |-> s]

OneOf(set) == [t |-> "in", set |-> set]

AnyChar == [t |-> "any"]

Bol == [t |-> "bol"]

Eol == [t |-> "eol"]

Cat(rs) == [t |-> "cat", rs |-> rs]

Alt(rs) == [t |-> "alt", rs |-> rs]

Star(r) == [t |-> "star", r |-> r]

Plus(r) == [t |-> "plus", r |-> r]

Opt(r) == [t |-> "opt", r |-> r]

\* A value used more than once is bound by a set of one element, so that it
\* is computed once.
RECURSIVE Ends(_, _, _)
RECURSIVE EndsCat(_, _, _, _)
RECURSIVE EndsStar(_, _, _)
Ends(r, s, P) ==
    IF P = {} THEN {}
    ELSE CASE r.t = "lit" ->
                {p + Len(r.s) :
                    p \in {q \in P : /\ q + Len(r.s) - 1 <= Len(s)
                                     /\ SubSeq(s, q, q + Len(r.s) - 1) = r.s}}
           [] r.t = "in" ->
                {p + 1 : p \in {q \in P : q <= Len(s) /\ s[q] \in r.set}}
           [] r.t = "any" ->
                {p + 1 : p \in {q \in P : q <= Len(s) /\ s[q] # "\n"}}
           [] r.t = "bol" -> P \cap {1}
           [] r.t = "eol" ->
                {p \in P : \/ p = Len(s) + 1
                           \/ p = Len(s) /\ s[p] = "\n"}
           [] r.t = "cat" -> EndsCat(r.rs, 1, s, P)
           [] r.t = "alt" ->
                UNION {Ends(r.rs[i], s, P) : i \in 1..Len(r.rs)}
           [] r.t = "opt" -> P \cup Ends(r.r, s, P)
           [] r.t = "star" -> EndsStar(r.r, s, P)
           [] r.t = "plus" ->
                UNION {EndsStar(r.r, s, Q) : Q \in {Ends(r.r, s, P)}}

\* the patterns rs[k], rs[k+1], ... one after the other
EndsCat(rs, k, s, P) ==
    IF k > Len(rs) \/ P = {} THEN P
    ELSE UNION {EndsCat(rs, k + 1, s, Q) : Q \in {Ends(rs[k], s, P)}}

\* r any number of times; when r is one character of a class, the ends are
\* the positions a run of such characters leads to
EndsStar(r, s, P) ==
    IF r.t \in {"in", "any"}
    THEN UNION {{q \in 1..(Len(s) + 1) :
                    \E p \in P : p <= q /\ \A b \in bad : b < p \/ b >= q} :
                 bad \in {{k \in 1..Len(s) : Ends(r, s, {k}) = {}}}}
    ELSE UNION {IF Q \subseteq P THEN P ELSE EndsStar(r, s, P \cup Q) :
                   Q \in {Ends(r, s, P)}}

\* re.match(pattern, s): a match that starts at the first character
re_match(pattern, s) == Ends(pattern, s, {1}) # {}

\* re.search(pattern, s): a match that starts anywhere
re_search(pattern, s) == Ends(pattern, s, 1..(Len(s) + 1)) # {}

SetMax(S) == CHOOSE m \in S : \A x \in S : x <= m

SetMin(S) == CHOOSE m \in S : \A x \in S : m <= x

\* re.sub(pattern, '', s) from position p on, for a pattern that matches no
\* empty text: the leftmost match, taken as long as it can be, is removed,
\* then the next
RECURSIVE sub_from(_, _, _)
sub_from(pattern, s, p) ==
    IF p > Len(s) THEN <<>>
    ELSE CHOOSE out \in
             {IF starts = {} THEN SubSeq(s, p, Len(s))
              ELSE CHOOSE rest \in
                       {SubSeq(s, p, q - 1)
                            \o sub_from(pattern, s,
                                        SetMax(Ends(pattern, s, {q}))) :
                           q \in {SetMin(starts)}} : TRUE :
                 starts \in {{q \in p..Len(s) :
                                 Ends(pattern, s, {q}) # {}}}} : TRUE

re_sub(pattern, s) == CHOOSE out \in {sub_from(pattern, t, 1) : t \in {s}} : TRUE

(***************************************************************************)
(* config.py: the discard patterns and the ordered table of institution    *)
(* patterns with their canonical names.                                    *)
(***************************************************************************)
GARBAGE_FRAGMENTS ==
    <<
      Cat(<<Bol, Lit(<<"s", "c", "i", "e", "n", "c", "e">>),
          Star(OneOf(Whitespace)), Opt(Alt(<<Lit(<<"a", "n", "d">>),
          Lit(<<"&">>)>>)), Star(OneOf(Whitespace)), Lit(<<"c", "o", "m", "m",
          "u", "n", "i", "t", "y">>), Star(AnyChar), Eol>>),
      Cat(<<Bol, Lit(<<"e", "d", "u", "c", "a", "t", "i", "o", "n">>),
          Star(OneOf(Whitespace)), Opt(Alt(<<Lit(<<"a", "n", "d">>),
          Lit(<<"&">>)>>)), Star(OneOf(Whitespace)), Lit(<<"s", "c", "i", "e",
          "n", "c", "e">>), Star(AnyChar), Eol>>),
      Cat(<<Bol, Lit(<<"c", "o", "m", "m", "u", "n", "i", "t", "y">>),
          Star(OneOf(Whitespace)), Lit(<<"d", "e", "v", "e", "l", "o", "p",
          "m", "e", "n", "t">>), Star(AnyChar), Eol>>),
      Cat(<<Bol, Lit(<<"s", "o", "c", "i", "a", "l">>),
          Star(OneOf(Whitespace)), Lit(<<"d", "e", "v", "e", "l", "o", "p",
          "m", "e", "n", "t">>), Star(AnyChar), Eol>>),
      Cat(<<Bol, Lit(<<"h", "i", "g", "h", "e", "r">>),
          Star(OneOf(Whitespace)), Lit(<<"e", "d", "u", "c", "a", "t", "i",
          "o", "n">>), Star(AnyChar), Eol>>),
      Cat(<<Bol, Alt(<<Lit(<<"a", "n", "d">>), Lit(<<"&">>)>>),
          Plus(OneOf(Whitespace)), Plus(OneOf(WordChars)), Star(AnyChar), Eol>>),
      Cat(<<Bol, Lit(<<"f", "o", "r">>), Plus(OneOf(Whitespace)),
          Plus(OneOf(WordChars)), Star(AnyChar), Eol>>)
    >>

INSTITUTION_STANDARDS ==
    <<
      [pattern |-> Cat(<<Lit(<<"q", "a", "t", "a", "r">>),
          Star(OneOf(Whitespace)), Lit(<<"f", "o", "u", "n", "d">>),
          Star(AnyChar), Lit(<<"e", "d", "u", "c", "a", "t", "i", "o", "n">>),
          Star(AnyChar), Lit(<<"s", "c", "i", "e", "n", "c", "e">>), Star(AnyChar),
          Lit(<<"c", "o", "m", "m", "u", "n", "i", "t", "y">>), Star(AnyChar),
          Lit(<<"d", "e", "v">>), Star(AnyChar)>>), standard |-> <<"Q", "a", "t",
          "a", "r", " ", "F", "o", "u", "n", "d", "a", "t", "i", "o", "n",
          " ", "f", "o", "r", " ", "E", "d", "u", "c", "a", "t", "i", "o",
          "n", ",", " ", "S", "c", "i", "e", "n", "c", "e", " ", "a", "n",
          "d", " ", "C", "o", "m", "m", "u", "n", "i", "t", "y", " ", "D",
          "e", "v", "e", "l", "o", "p", "m", "e", "n", "t">>],
      [pattern |-> Cat(<<Lit(<<"q", "a", "t", "a", "r">>),
          Star(OneOf(Whitespace)), Lit(<<"f", "o", "u", "n", "d">>),
          Star(AnyChar), Lit(<<"e", "d", "u", "c", "a", "t", "i", "o", "n">>),
          Star(AnyChar), Lit(<<"s", "c", "i", "e", "n", "c", "e">>), Star(AnyChar),
          Lit(<<"c", "o", "m", "m", "u", "n", "i", "t", "y">>)>>),
          standard |-> <<"Q", "a", "t", "a", "r", " ", "F", "o", "u", "n",
          "d", "a", "t", "i", "o", "n", " ", "f", "o", "r", " ", "E", "d",
          "u", "c", "a", "t", "i", "o", "n", ",", " ", "S", "c", "i", "e",
          "n", "c", "e", " ", "a", "n", "d", " ", "C", "o", "m", "m", "u",
          "n", "i", "t", "y", " ", "D", "e", "v", "e", "l", "o", "p", "m",
          "e", "n", "t">>],
      [pattern |-> Cat(<<Lit(<<"q", "a", "t", "a", "r">>),
          Star(OneOf(Whitespace)), Lit(<<"f", "o", "u", "n", "d">>),
          Star(AnyChar), Lit(<<"s", "c", "i", "e", "n", "c", "e">>), Star(AnyChar),
          Lit(<<"e", "d", "u", "c", "a", "t", "i", "o", "n">>), Star(AnyChar),
          Lit(<<"c", "o", "m", "m", "u", "n", "i", "t", "y">>)>>),
          standard |-> <<"Q", "a", "t", "a", "r", " ", "F", "o", "u", "n",
          "d", "a", "t", "i", "o", "n", " ", "f", "o", "r", " ", "E", "d",
          "u", "c", "a", "t", "i", "o", "n", ",", " ", "S", "c", "i", "e",
          "n", "c", "e", " ", "a", "n", "d", " ", "C", "o", "m", "m", "u",
          "n", "i", "t", "y", " ", "D", "e", "v", "e", "l", "o", "p", "m",
          "e", "n", "t">>],
      [pattern |-> Cat(<<Lit(<<"q", "a", "t", "a", "r">>),
          Star(OneOf(Whitespace)), Lit(<<"f", "o", "u", "n", "d">>),
          Star(AnyChar), Lit(<<"s", "c", "i", "e", "n", "c", "e">>), Star(AnyChar),
          Lit(<<"e", "d", "u", "c", "a", "t", "i", "o", "n">>), Star(AnyChar),
          Lit(<<"s", "o", "c", "i", "a", "l">>)>>), standard |-> <<"Q", "a",
          "t", "a", "r", " ", "F", "o", "u", "n", "d", "a", "t", "i", "o",
          "n", " ", "f", "o", "r", " ", "E", "d", "u", "c", "a", "t", "i",
          "o", "n", ",", " ", "S", "c", "i", "e", "n", "c", "e", " ", "a",
          "n", "d", " ", "C", "o", "m", "m", "u", "n", "i", "t", "y", " ",
          "D", "e", "v", "e", "l", "o", "p", "m", "e", "n", "t">>],
      [pattern |-> Cat(<<Lit(<<"q", "a", "t", "a", "r">>),
          Star(OneOf(Whitespace)), Lit(<<"f", "o", "u", "n", "d">>),
          Star(AnyChar), Lit(<<"f", "o", "r">>), Star(OneOf(Whitespace)),
          Lit(<<"s", "c", "i", "e", "n", "c", "e">>), Star(OneOf(Whitespace)),
          Lit(<<"e", "d", "u", "c", "a", "t", "i", "o", "n">>)>>),
          standard |-> <<"Q", "a", "t", "a", "r", " ", "F", "o", "u", "n",
          "d", "a", "t", "i", "o", "n", " ", "f", "o", "r", " ", "E", "d",
          "u", "c", "a", "t", "i", "o", "n", ",", " ", "S", "c", "i", "e",
          "n", "c", "e", " ", "a", "n", "d", " ", "C", "o", "m", "m", "u",
          "n", "i", "t", "y", " ", "D", "e", "v", "e", "l", "o", "p", "m",
          "e", "n", "t">>],
      [pattern |-> Cat(<<Lit(<<"q", "a", "t", "a", "r">>),
          Star(OneOf(Whitespace)), Lit(<<"f", "o", "u", "n", "d">>),
          Star(AnyChar), Lit(<<"e", "d", "u", "c", "a", "t", "i", "o", "n">>),
          Star(AnyChar), Lit(<<"s", "c", "i", "e", "n", "c", "e">>), Star(AnyChar)>>),
          standard |-> <<"Q", "a", "t", "a", "r", " ", "F", "o", "u", "n",
          "d", "a", "t", "i", "o", "n", " ", "f", "o", "r", " ", "E", "d",
          "u", "c", "a", "t", "i", "o", "n", ",", " ", "S", "c", "i", "e",
          "n", "c", "e", " ", "a", "n", "d", " ", "C", "o", "m", "m", "u",
          "n", "i", "t", "y", " ", "D", "e", "v", "e", "l", "o", "p", "m",
          "e", "n", "t">>],
      [pattern |-> Cat(<<Lit(<<"q", "a", "t", "a", "r">>),
          Star(OneOf(Whitespace)), Lit(<<"f", "o", "u", "n", "d">>),
          Star(AnyChar), Lit(<<"s", "c", "i", "e", "n", "c", "e">>), Star(AnyChar),
          Lit(<<"c", "o", "m", "m", "u", "n", "i", "t", "y">>)>>),
          standard |-> <<"Q", "a", "t", "a", "r", " ", "F", "o", "u", "n",
          "d", "a", "t", "i", "o", "n", " ", "f", "o", "r", " ", "E", "d",
          "u", "c", "a", "t", "i", "o", "n", ",", " ", "S", "c", "i", "e",
          "n", "c", "e", " ", "a", "n", "d", " ", "C", "o", "m", "m", "u",
          "n", "i", "t", "y", " ", "D", "e", "v", "e", "l", "o", "p", "m",
          "e", "n", "t">>],
      [pattern |-> Cat(<<Lit(<<"q", "a", "t", "a", "r">>),
          Star(OneOf(Whitespace)), Lit(<<"f", "o", "u", "n", "d", "a", "t",
          "i", "o", "n">>), Star(OneOf(Whitespace)), Lit(<<"f", "o", "r">>),
          Star(OneOf(Whitespace)), Lit(<<"e", "d", "u", "c", "a", "t", "i",
          "o", "n">>)>>), standard |-> <<"Q", "a", "t", "a", "r", " ", "F",
          "o", "u", "n", "d", "a", "t", "i", "o", "n", " ", "f", "o", "r",
          " ", "E", "d", "u", "c", "a", "t", "i", "o", "n", ",", " ", "S",
          "c", "i", "e", "n", "c", "e", " ", "a", "n", "d", " ", "C", "o",
          "m", "m", "u", "n", "i", "t", "y", " ", "D", "e", "v", "e", "l",
          "o", "p", "m", "e", "n", "t">>],
      [pattern |-> Cat(<<Lit(<<"q", "a", "t", "a", "r">>),
          Star(OneOf(Whitespace)), Lit(<<"f", "o", "u", "n", "d", "a", "t",
          "i", "o", "n">>), Star(OneOf(Whitespace)), Lit(<<"f", "o", "r">>),
          Star(OneOf(Whitespace)), Lit(<<"e", "d">>), Opt(Lit(<<".">>)),
          Star(OneOf(Whitespace)), Lit(<<"s", "c", "i", "e", "n", "c",
          "e">>)>>), standard |-> <<"Q", "a", "t", "a", "r", " ", "F", "o",
          "u", "n", "d", "a", "t", "i", "o", "n", " ", "f", "o", "r", " ",
          "E", "d", "u", "c", "a", "t", "i", "o", "n", ",", " ", "S", "c",
          "i", "e", "n", "c", "e", " ", "a", "n", "d", " ", "C", "o", "m",
          "m", "u", "n", "i", "t", "y", " ", "D", "e", "v", "e", "l", "o",
          "p", "m", "e", "n", "t">>],
      [pattern |-> Cat(<<Bol, Lit(<<"q", "a", "t", "a", "r">>),
          Star(OneOf(Whitespace)), Lit(<<"f", "o", "u", "n", "d", "a", "t",
          "i", "o", "n">>), Star(OneOf(Whitespace)), Opt(Lit(<<",">>)),
          Star(OneOf(Whitespace)), Eol>>), standard |-> <<"Q", "a", "t", "a",
          "r", " ", "F", "o", "u", "n", "d", "a", "t", "i", "o", "n", " ",
          "f", "o", "r", " ", "E", "d", "u", "c", "a", "t", "i", "o", "n",
          ",", " ", "S", "c", "i", "e", "n", "c", "e", " ", "a", "n", "d",
          " ", "C", "o", "m", "m", "u", "n", "i", "t", "y", " ", "D", "e",
          "v", "e", "l", "o", "p", "m", "e", "n", "t">>],
      [pattern |-> Cat(<<Bol, Lit(<<"q", "a", "t", "a", "r">>),
          Star(OneOf(Whitespace)), Lit(<<"f", "o", "u", "n", "d">>),
          Opt(Lit(<<".">>)), Star(OneOf(Whitespace)), Opt(Lit(<<",">>)),
          Star(OneOf(Whitespace)), Eol>>), standard |-> <<"Q", "a", "t", "a",
          "r", " ", "F", "o", "u", "n", "d", "a", "t", "i", "o", "n", " ",
          "f", "o", "r", " ", "E", "d", "u", "c", "a", "t", "i", "o", "n",
          ",", " ", "S", "c", "i", "e", "n", "c", "e", " ", "a", "n", "d",
          " ", "C", "o", "m", "m", "u", "n", "i", "t", "y", " ", "D", "e",
          "v", "e", "l", "o", "p", "m", "e", "n", "t">>],
      [pattern |-> Cat(<<Bol, Lit(<<"q", "a", "t", "a", "r">>),
          Star(OneOf(Whitespace)), Lit(<<"f", "o", "u", "n", "d">>),
          Plus(OneOf(Whitespace)), Lit(<<"f", "o", "r">>),
          Plus(OneOf(Whitespace))>>), standard |-> <<"Q", "a", "t", "a", "r",
          " ", "F", "o", "u", "n", "d", "a", "t", "i", "o", "n", " ", "f",
          "o", "r", " ", "E", "d", "u", "c", "a", "t", "i", "o", "n", ",",
          " ", "S", "c", "i", "e", "n", "c", "e", " ", "a", "n", "d", " ",
          "C", "o", "m", "m", "u", "n", "i", "t", "y", " ", "D", "e", "v",
          "e", "l", "o", "p", "m", "e", "n", "t">>],
      [pattern |-> Cat(<<Lit(<<"q", "a", "t", "a", "r">>),
          Star(OneOf(Whitespace)), Lit(<<"f", "o", "u", "n", "a", "t", "i",
          "o", "n">>)>>), standard |-> <<"Q", "a", "t", "a", "r", " ", "F",
          "o", "u", "n", "d", "a", "t", "i", "o", "n", " ", "f", "o", "r",
          " ", "E", "d", "u", "c", "a", "t", "i", "o", "n", ",", " ", "S",
          "c", "i", "e", "n", "c", "e", " ", "a", "n", "d", " ", "C", "o",
          "m", "m", "u", "n", "i", "t", "y", " ", "D", "e", "v", "e", "l",
          "o", "p", "m", "e", "n", "t">>],
      [pattern |-> Cat(<<Lit(<<"q", "a", "t", "a", "r">>),
          Star(OneOf(Whitespace)), Lit(<<"f", "o", "u", "n", "d", "a", "t",
          "i", "i", "o", "n">>)>>), standard |-> <<"Q", "a", "t", "a", "r",
          " ", "F", "o", "u", "n", "d", "a", "t", "i", "o", "n", " ", "f",
          "o", "r", " ", "E", "d", "u", "c", "a", "t", "i", "o", "n", ",",
          " ", "S", "c", "i", "e", "n", "c", "e", " ", "a", "n", "d", " ",
          "C", "o", "m", "m", "u", "n", "i", "t", "y", " ", "D", "e", "v",
          "e", "l", "o", "p", "m", "e", "n", "t">>],
      [pattern |-> Cat(<<Lit(<<"q", "a", "t", "a", "r">>),
          Star(OneOf(Whitespace)), Lit(<<"f", "o", "u", "n", "d", "a">>),
          Opt(Lit(<<"t">>)), Lit(<<"i", "o", "n">>)>>), standard |-> <<"Q",
          "a", "t", "a", "r", " ", "F", "o", "u", "n", "d", "a", "t", "i",
          "o", "n", " ", "f", "o", "r", " ", "E", "d", "u", "c", "a", "t",
          "i", "o", "n", ",", " ", "S", "c", "i", "e", "n", "c", "e", " ",
          "a", "n", "d", " ", "C", "o", "m", "m", "u", "n", "i", "t", "y",
          " ", "D", "e", "v", "e", "l", "o", "p", "m", "e", "n", "t">>],
      [pattern |-> Cat(<<Lit(<<"q", "a", "t", "o", "r">>),
          Star(OneOf(Whitespace)), Lit(<<"f", "o", "u", "n", "d">>)>>),
          standard |-> <<"Q", "a", "t", "a", "r", " ", "F", "o", "u", "n",
          "d", "a", "t", "i", "o", "n", " ", "f", "o", "r", " ", "E", "d",
          "u", "c", "a", "t", "i", "o", "n", ",", " ", "S", "c", "i", "e",
          "n", "c", "e", " ", "a", "n", "d", " ", "C", "o", "m", "m", "u",
          "n", "i", "t", "y", " ", "D", "e", "v", "e", "l", "o", "p", "m",
          "e", "n", "t">>],
      [pattern |-> Cat(<<Lit(<<"q", "f">>), Star(OneOf(Whitespace)),
          Lit(<<"f", "o", "r">>), Star(OneOf(Whitespace)), Lit(<<"e", "d",
          "u", "c", "a", "t", "i", "o", "n">>)>>), standard |-> <<"Q", "a",
          "t", "a", "r", " ", "F", "o", "u", "n", "d", "a", "t", "i", "o",
          "n", " ", "f", "o", "r", " ", "E", "d", "u", "c", "a", "t", "i",
          "o", "n", ",", " ", "S", "c", "i", "e", "n", "c", "e", " ", "a",
          "n", "d", " ", "C", "o", "m", "m", "u", "n", "i", "t", "y", " ",
          "D", "e", "v", "e", "l", "o", "p", "m", "e", "n", "t">>],
      [pattern |-> Cat(<<Bol, Lit(<<"q", "a", "t", "a", "r">>),
          Plus(OneOf(Whitespace)), Lit(<<"f", "o", "u", "n", "d">>),
          Star(OneOf(Whitespace)), Eol>>), standard |-> <<"Q", "a", "t", "a",
          "r", " ", "F", "o", "u", "n", "d", "a", "t", "i", "o", "n", " ",
          "f", "o", "r", " ", "E", "d", "u", "c", "a", "t", "i", "o", "n",
          ",", " ", "S", "c", "i", "e", "n", "c", "e", " ", "a", "n", "d",
          " ", "C", "o", "m", "m", "u", "n", "i", "t", "y", " ", "D", "e",
          "v", "e", "l", "o", "p", "m", "e", "n", "t">>],
      [pattern |-> Cat(<<Lit(<<"q", "a", "t", "a", "r">>),
          Star(OneOf(Whitespace)), Lit(<<"m", "i", "n", "i">>), Star(AnyChar),
          Lit(<<"e", "d", "u", "c", "a", "t", "i", "o", "n">>), Star(AnyChar),
          Lit(<<"h", "i", "g", "h", "e", "r">>)>>), standard |-> <<"Q", "a",
          "t", "a", "r", " ", "M", "i", "n", "i", "s", "t", "r", "y", " ",
          "o", "f", " ", "E", "d", "u", "c", "a", "t", "i", "o", "n", " ",
          "a", "n", "d", " ", "H", "i", "g", "h", "e", "r", " ", "E", "d",
          "u", "c", "a", "t", "i", "o", "n">>],
      [pattern |-> Cat(<<Lit(<<"q", "a", "t", "a", "r">>),
          Star(OneOf(Whitespace)), Lit(<<"m", "i", "n", "i", "s", "t", "r",
          "y">>), Star(AnyChar), Lit(<<"e", "d", "u", "c", "a", "t", "i", "o",
          "n">>), Star(AnyChar), Lit(<<"h", "i", "g", "h", "e", "r">>)>>),
          standard |-> <<"Q", "a", "t", "a", "r", " ", "M", "i", "n", "i",
          "s", "t", "r", "y", " ", "o", "f", " ", "E", "d", "u", "c", "a",
          "t", "i", "o", "n", " ", "a", "n", "d", " ", "H", "i", "g", "h",
          "e", "r", " ", "E", "d", "u", "c", "a", "t", "i", "o", "n">>],
      [pattern |-> Cat(<<Lit(<<"q", "a", "t", "a", "r">>),
          Star(OneOf(Whitespace)), Lit(<<"m", "i", "n", "i", "s", "t", "r",
          "y">>), Star(OneOf(Whitespace)), Lit(<<"o", "f">>),
          Star(OneOf(Whitespace)), Lit(<<"e", "d", "u", "c", "a", "t", "i",
          "o", "n">>)>>), standard |-> <<"Q", "a", "t", "a", "r", " ", "M",
          "i", "n", "i", "s", "t", "r", "y", " ", "o", "f", " ", "E", "d",
          "u", "c", "a", "t", "i", "o", "n", " ", "a", "n", "d", " ", "H",
          "i", "g", "h", "e", "r", " ", "E", "d", "u", "c", "a", "t", "i",
          "o", "n">>],
      [pattern |-> Cat(<<Lit(<<"q", "a", "t", "a", "r">>),
          Star(OneOf(Whitespace)), Lit(<<"m", "i", "n", "i">>), Star(AnyChar),
          Lit(<<"o", "f">>), Star(AnyChar), Lit(<<"e", "d", "u", "c", "a", "t",
          "i", "o", "n">>)>>), standard |-> <<"Q", "a", "t", "a", "r", " ",
          "M", "i", "n", "i", "s", "t", "r", "y", " ", "o", "f", " ", "E",
          "d", "u", "c", "a", "t", "i", "o", "n", " ", "a", "n", "d", " ",
          "H", "i", "g", "h", "e", "r", " ", "E", "d", "u", "c", "a", "t",
          "i", "o", "n">>],
      [pattern |-> Cat(<<Lit(<<"m", "i", "n", "i", "s", "t", "r", "y">>),
          Star(AnyChar), Lit(<<"e", "d", "u", "c", "a", "t", "i", "o", "n">>),
          Star(AnyChar), Lit(<<"q", "a", "t", "a", "r">>)>>), standard |-> <<"Q",
          "a", "t", "a", "r", " ", "M", "i", "n", "i", "s", "t", "r", "y",
          " ", "o", "f", " ", "E", "d", "u", "c", "a", "t", "i", "o", "n",
          " ", "a", "n", "d", " ", "H", "i", "g", "h", "e", "r", " ", "E",
          "d", "u", "c", "a", "t", "i", "o", "n">>],
      [pattern |-> Cat(<<Bol, Lit(<<"m", "o", "e">>), Star(OneOf(Whitespace)),
          Lit(<<"q", "a", "t", "a", "r">>)>>), standard |-> <<"Q", "a", "t",
          "a", "r", " ", "M", "i", "n", "i", "s", "t", "r", "y", " ", "o",
          "f", " ", "E", "d", "u", "c", "a", "t", "i", "o", "n", " ", "a",
          "n", "d", " ", "H", "i", "g", "h", "e", "r", " ", "E", "d", "u",
          "c", "a", "t", "i", "o", "n">>],
      [pattern |-> Cat(<<Bol, Lit(<<"m", "o", "e", "h", "e">>),
          Star(OneOf(Whitespace)), Eol>>), standard |-> <<"Q", "a", "t", "a",
          "r", " ", "M", "i", "n", "i", "s", "t", "r", "y", " ", "o", "f",
          " ", "E", "d", "u", "c", "a", "t", "i", "o", "n", " ", "a", "n",
          "d", " ", "H", "i", "g", "h", "e", "r", " ", "E", "d", "u", "c",
          "a", "t", "i", "o", "n">>],
      [pattern |-> Cat(<<Bol, Lit(<<"u", "n", "i", "v">>), Opt(Lit(<<".">>)),
          Star(OneOf(Whitespace)), Lit(<<"q", "a", "t", "a", "r">>)>>),
          standard |-> <<"Q", "a", "t", "a", "r", " ", "U", "n", "i", "v",
          "e", "r", "s", "i", "t", "y">>],
      [pattern |-> Cat(<<Bol, Lit(<<"q", "a", "t", "a", "r">>),
          Star(OneOf(Whitespace)), Lit(<<"u", "n", "i", "v", "e", "r", "s",
          "i", "t", "y">>), Star(OneOf(Whitespace)), Lit(<<"q", "s", "t",
          "p">>), Star(AnyChar)>>), standard |-> <<"Q", "a", "t", "a", "r", " ",
          "U", "n", "i", "v", "e", "r", "s", "i", "t", "y">>],
      [pattern |-> Cat(<<Bol, Lit(<<"q", "a", "t", "a", "r">>),
          Star(OneOf(Whitespace)), Lit(<<"u", "n", "i", "v", "e", "r", "s",
          "i", "t", "y">>), Star(OneOf(Whitespace)), Opt(Lit(<<",">>)),
          Star(OneOf(Whitespace)), Eol>>), standard |-> <<"Q", "a", "t", "a",
          "r", " ", "U", "n", "i", "v", "e", "r", "s", "i", "t", "y">>],
      [pattern |-> Cat(<<Bol, Lit(<<"q", "a", "t", "a", "r">>),
          Star(OneOf(Whitespace)), Lit(<<"u", "n", "i", "v">>),
          Opt(Lit(<<".">>)), Star(OneOf(Whitespace))>>), standard |-> <<"Q",
          "a", "t", "a", "r", " ", "U", "n", "i", "v", "e", "r", "s", "i",
          "t", "y">>],
      [pattern |-> Cat(<<Bol, Lit(<<"q", "u", "a", "t", "a", "r">>),
          Star(OneOf(Whitespace)), Lit(<<"u", "n", "i", "v">>)>>),
          standard |-> <<"Q", "a", "t", "a", "r", " ", "U", "n", "i", "v",
          "e", "r", "s", "i", "t", "y">>],
      [pattern |-> Cat(<<Lit(<<"q", "a", "t", "a", "r">>),
          Star(OneOf(Whitespace)), Lit(<<"u", "n", "i", "v", "e", "r", "s",
          "i", "t", "y">>), Star(OneOf(Whitespace)), Lit(<<"g", "l", "o", "b",
          "a", "l">>), Star(OneOf(Whitespace)), Lit(<<"p", "a", "t", "e", "n",
          "t">>)>>), standard |-> <<"Q", "a", "t", "a", "r", " ", "U", "n",
          "i", "v", "e", "r", "s", "i", "t", "y">>],
      [pattern |-> Cat(<<Lit(<<"q", "a", "t", "a", "r">>),
          Star(OneOf(Whitespace)), Lit(<<"u", "n", "i", "v", "e", "r", "s",
          "i", "t", "y">>), Star(OneOf(Whitespace)), Lit(<<"o", "f", "f", "i",
          "c", "e">>)>>), standard |-> <<"Q", "a", "t", "a", "r", " ", "U",
          "n", "i", "v", "e", "r", "s", "i", "t", "y">>],
      [pattern |-> Cat(<<Lit(<<"q", "a", "t", "a", "r">>),
          Star(OneOf(Whitespace)), Lit(<<"u", "n", "i", "v", "e", "r", "s",
          "i", "t", "y">>), Star(OneOf(Whitespace)), Lit(<<"a", "l">>),
          Star(OneOf(Whitespace)), Lit(<<"t", "a", "r", "f", "a">>)>>),
          standard |-> <<"Q", "a", "t", "a", "r", " ", "U", "n", "i", "v",
          "e", "r", "s", "i", "t", "y">>],
      [pattern |-> Cat(<<Bol, Lit(<<"q", "u">>), Star(OneOf(Whitespace)),
          Lit(<<"q", "s", "t", "p">>)>>), standard |-> <<"Q", "a", "t", "a",
          "r", " ", "U", "n", "i", "v", "e", "r", "s", "i", "t", "y">>],
      [pattern |-> Cat(<<Lit(<<"h", "a", "m", "a", "d">>),
          Star(OneOf(Whitespace)), Lit(<<"m", "e", "d">>), Star(AnyChar),
          Lit(<<"c", "o", "r", "p">>)>>), standard |-> <<"H", "a", "m", "a",
          "d", " ", "M", "e", "d", "i", "c", "a", "l", " ", "C", "o", "r",
          "p", "o", "r", "a", "t", "i", "o", "n">>],
      [pattern |-> Cat(<<Bol, Lit(<<"h", "a", "m", "a", "d">>),
          Star(OneOf(Whitespace)), Lit(<<"m", "e", "d", "i", "c", "a", "l">>),
          Star(OneOf(Whitespace)), Eol>>), standard |-> <<"H", "a", "m", "a",
          "d", " ", "M", "e", "d", "i", "c", "a", "l", " ", "C", "o", "r",
          "p", "o", "r", "a", "t", "i", "o", "n">>],
      [pattern |-> Cat(<<Bol, Lit(<<"h", "m", "c">>), Star(OneOf(Whitespace)),
          Eol>>), standard |-> <<"H", "a", "m", "a", "d", " ", "M", "e", "d",
          "i", "c", "a", "l", " ", "C", "o", "r", "p", "o", "r", "a", "t",
          "i", "o", "n">>],
      [pattern |-> Cat(<<Bol, Lit(<<"s", "i", "d", "r", "a">>),
          Star(OneOf(Whitespace)), Lit(<<"m", "e", "d">>), Star(AnyChar)>>),
          standard |-> <<"S", "i", "d", "r", "a", " ", "M", "e", "d", "i",
          "c", "i", "n", "e">>],
      [pattern |-> Cat(<<Bol, Lit(<<"s", "i", "d", "r", "a">>),
          Star(OneOf(Whitespace)), Lit(<<"r", "e", "s", "e", "a", "r", "c",
          "h">>)>>), standard |-> <<"S", "i", "d", "r", "a", " ", "M", "e",
          "d", "i", "c", "i", "n", "e">>],
      [pattern |-> Cat(<<Lit(<<"h", "a", "m", "a", "d">>),
          Star(OneOf(Whitespace)), Lit(<<"b", "i", "n">>),
          Star(OneOf(Whitespace)), Lit(<<"k", "h", "a", "l", "i", "f", "a">>),
          Star(OneOf(Whitespace)), Lit(<<"u", "n", "i", "v">>), Star(AnyChar)>>),
          standard |-> <<"H", "a", "m", "a", "d", " ", "B", "i", "n", " ",
          "K", "h", "a", "l", "i", "f", "a", " ", "U", "n", "i", "v", "e",
          "r", "s", "i", "t", "y">>],
      [pattern |-> Cat(<<Bol, Lit(<<"h", "b", "k", "u">>),
          Star(OneOf(Whitespace)), Eol>>), standard |-> <<"H", "a", "m", "a",
          "d", " ", "B", "i", "n", " ", "K", "h", "a", "l", "i", "f", "a",
          " ", "U", "n", "i", "v", "e", "r", "s", "i", "t", "y">>],
      [pattern |-> Cat(<<Lit(<<"q", "a", "t", "a", "r">>),
          Star(OneOf(Whitespace)), Lit(<<"f", "o", "o", "t", "b", "a", "l",
          "l">>), Star(OneOf(Whitespace)), Lit(<<"a", "s", "s">>),
          Star(AnyChar)>>), standard |-> <<"Q", "a", "t", "a", "r", " ", "F", "o",
          "o", "t", "b", "a", "l", "l", " ", "A", "s", "s", "o", "c", "i",
          "a", "t", "i", "o", "n">>],
      [pattern |-> Cat(<<Bol, Lit(<<"q", "f", "a">>), Star(OneOf(Whitespace)),
          Eol>>), standard |-> <<"Q", "a", "t", "a", "r", " ", "F", "o", "o",
          "t", "b", "a", "l", "l", " ", "A", "s", "s", "o", "c", "i", "a",
          "t", "i", "o", "n">>],
      [pattern |-> Cat(<<Lit(<<"m", "a", "e", "r", "s", "k">>),
          Star(OneOf(Whitespace)), Lit(<<"o", "i", "l">>),
          Star(OneOf(Whitespace)), Lit(<<"q", "a", "t", "a", "r">>),
          Star(AnyChar)>>), standard |-> <<"M", "a", "e", "r", "s", "k", " ", "O",
          "i", "l", " ", "Q", "a", "t", "a", "r", " ", "A", "S">>],
      [pattern |-> Cat(<<Bol, Lit(<<"m", "a", "e", "r", "s", "k">>),
          Star(OneOf(Whitespace)), Lit(<<"q", "a", "t", "a", "r">>)>>),
          standard |-> <<"M", "a", "e", "r", "s", "k", " ", "O", "i", "l",
          " ", "Q", "a", "t", "a", "r", " ", "A", "S">>],
      [pattern |-> Cat(<<Lit(<<"c", "o", "l", "l", "e", "g", "e">>),
          Star(AnyChar), Lit(<<"n", "o", "r", "t", "h">>),
          Star(OneOf(Whitespace)), Lit(<<"a", "t", "l", "a", "n", "t", "i",
          "c">>), Star(AnyChar), Lit(<<"q", "a", "t", "a", "r">>)>>),
          standard |-> <<"C", "o", "l", "l", "e", "g", "e", " ", "o", "f",
          " ", "t", "h", "e", " ", "N", "o", "r", "t", "h", " ", "A", "t",
          "l", "a", "n", "t", "i", "c", " ", "Q", "a", "t", "a", "r">>],
      [pattern |-> Cat(<<Bol, Lit(<<"c", "n", "a">>), Star(OneOf(Whitespace)),
          Lit(<<"q", "a", "t", "a", "r">>)>>), standard |-> <<"C", "o", "l",
          "l", "e", "g", "e", " ", "o", "f", " ", "t", "h", "e", " ", "N",
          "o", "r", "t", "h", " ", "A", "t", "l", "a", "n", "t", "i", "c",
          " ", "Q", "a", "t", "a", "r">>],
      [pattern |-> Cat(<<Bol, Lit(<<"c", "n", "a", "-", "q">>)>>),
          standard |-> <<"C", "o", "l", "l", "e", "g", "e", " ", "o", "f",
          " ", "t", "h", "e", " ", "N", "o", "r", "t", "h", " ", "A", "t",
          "l", "a", "n", "t", "i", "c", " ", "Q", "a", "t", "a", "r">>],
      [pattern |-> Cat(<<Lit(<<"t", "e", "x", "a", "s">>),
          Star(OneOf(Whitespace)), Lit(<<"a">>), Star(OneOf(Whitespace)),
          Opt(Lit(<<"&">>)), Star(OneOf(Whitespace)), Lit(<<"m">>),
          Star(OneOf(Whitespace)), Lit(<<"u", "n", "i", "v">>), Star(AnyChar)>>),
          standard |-> <<"T", "e", "x", "a", "s", " ", "A", "&", "M", " ",
          "U", "n", "i", "v", "e", "r", "s", "i", "t", "y", " ", "a", "t",
          " ", "Q", "a", "t", "a", "r">>],
      [pattern |-> Cat(<<Bol, Lit(<<"t", "a", "m", "u">>),
          Star(OneOf(Whitespace)), Lit(<<"q", "a", "t", "a", "r">>)>>),
          standard |-> <<"T", "e", "x", "a", "s", " ", "A", "&", "M", " ",
          "U", "n", "i", "v", "e", "r", "s", "i", "t", "y", " ", "a", "t",
          " ", "Q", "a", "t", "a", "r">>],
      [pattern |-> Cat(<<Bol, Lit(<<"t", "a", "m", "u", "q">>)>>),
          standard |-> <<"T", "e", "x", "a", "s", " ", "A", "&", "M", " ",
          "U", "n", "i", "v", "e", "r", "s", "i", "t", "y", " ", "a", "t",
          " ", "Q", "a", "t", "a", "r">>],
      [pattern |-> Cat(<<Lit(<<"w", "e", "i", "l", "l">>),
          Star(OneOf(Whitespace)), Lit(<<"c", "o", "r", "n", "e", "l", "l">>),
          Star(AnyChar)>>), standard |-> <<"W", "e", "i", "l", "l", " ", "C", "o",
          "r", "n", "e", "l", "l", " ", "M", "e", "d", "i", "c", "i", "n",
          "e", "-", "Q", "a", "t", "a", "r">>],
      [pattern |-> Cat(<<Bol, Lit(<<"w", "c", "m">>), Opt(Lit(<<"-">>)),
          Lit(<<"q">>)>>), standard |-> <<"W", "e", "i", "l", "l", " ", "C",
          "o", "r", "n", "e", "l", "l", " ", "M", "e", "d", "i", "c", "i",
          "n", "e", "-", "Q", "a", "t", "a", "r">>],
      [pattern |-> Cat(<<Lit(<<"n", "o", "r", "t", "h", "w", "e", "s", "t",
          "e", "r", "n">>), Star(AnyChar), Lit(<<"q", "a", "t", "a", "r">>)>>),
          standard |-> <<"N", "o", "r", "t", "h", "w", "e", "s", "t", "e",
          "r", "n", " ", "U", "n", "i", "v", "e", "r", "s", "i", "t", "y",
          " ", "i", "n", " ", "Q", "a", "t", "a", "r">>],
      [pattern |-> Cat(<<Bol, Lit(<<"n", "u">>), Opt(Lit(<<"-">>)),
          Lit(<<"q">>)>>), standard |-> <<"N", "o", "r", "t", "h", "w", "e",
          "s", "t", "e", "r", "n", " ", "U", "n", "i", "v", "e", "r", "s",
          "i", "t", "y", " ", "i", "n", " ", "Q", "a", "t", "a", "r">>],
      [pattern |-> Cat(<<Lit(<<"c", "a", "r", "n", "e", "g", "i", "e">>),
          Star(OneOf(Whitespace)), Lit(<<"m", "e", "l", "l", "o", "n">>),
          Star(AnyChar)>>), standard |-> <<"C", "a", "r", "n", "e", "g", "i", "e",
          " ", "M", "e", "l", "l", "o", "n", " ", "U", "n", "i", "v", "e",
          "r", "s", "i", "t", "y", " ", "i", "n", " ", "Q", "a", "t", "a",
          "r">>],
      [pattern |-> Cat(<<Bol, Lit(<<"c", "m", "u">>), Opt(Lit(<<"-">>)),
          Lit(<<"q">>)>>), standard |-> <<"C", "a", "r", "n", "e", "g", "i",
          "e", " ", "M", "e", "l", "l", "o", "n", " ", "U", "n", "i", "v",
          "e", "r", "s", "i", "t", "y", " ", "i", "n", " ", "Q", "a", "t",
          "a", "r">>],
      [pattern |-> Cat(<<Lit(<<"g", "e", "o", "r", "g", "e", "t", "o", "w",
          "n">>), Star(AnyChar), Lit(<<"q", "a", "t", "a", "r">>)>>),
          standard |-> <<"G", "e", "o", "r", "g", "e", "t", "o", "w", "n",
          " ", "U", "n", "i", "v", "e", "r", "s", "i", "t", "y", " ", "i",
          "n", " ", "Q", "a", "t", "a", "r">>],
      [pattern |-> Cat(<<Bol, Lit(<<"g", "u">>), Opt(Lit(<<"-">>)),
          Lit(<<"q">>)>>), standard |-> <<"G", "e", "o", "r", "g", "e", "t",
          "o", "w", "n", " ", "U", "n", "i", "v", "e", "r", "s", "i", "t",
          "y", " ", "i", "n", " ", "Q", "a", "t", "a", "r">>],
      [pattern |-> Cat(<<Lit(<<"v", "i", "r", "g", "i", "n", "i", "a">>),
          Star(OneOf(Whitespace)), Lit(<<"c", "o", "m", "m", "o", "n", "w",
          "e", "a", "l", "t", "h">>), Star(AnyChar), Lit(<<"q", "a", "t", "a",
          "r">>)>>), standard |-> <<"V", "i", "r", "g", "i", "n", "i", "a",
          " ", "C", "o", "m", "m", "o", "n", "w", "e", "a", "l", "t", "h",
          " ", "U", "n", "i", "v", "e", "r", "s", "i", "t", "y", " ", "i",
          "n", " ", "Q", "a", "t", "a", "r">>],
      [pattern |-> Cat(<<Bol, Lit(<<"v", "c", "u">>), Opt(Lit(<<"-">>)),
          Lit(<<"q">>)>>), standard |-> <<"V", "i", "r", "g", "i", "n", "i",
          "a", " ", "C", "o", "m", "m", "o", "n", "w", "e", "a", "l", "t",
          "h", " ", "U", "n", "i", "v", "e", "r", "s", "i", "t", "y", " ",
          "i", "n", " ", "Q", "a", "t", "a", "r">>],
      [pattern |-> Cat(<<Lit(<<"u", "n", "i", "v", "e", "r", "s", "i", "t",
          "y">>), Star(OneOf(Whitespace)), Lit(<<"o", "f">>),
          Star(OneOf(Whitespace)), Lit(<<"d", "o", "h", "a">>)>>),
          standard |-> <<"U", "n", "i", "v", "e", "r", "s", "i", "t", "y",
          " ", "o", "f", " ", "D", "o", "h", "a", " ", "f", "o", "r", " ",
          "S", "c", "i", "e", "n", "c", "e", " ", "a", "n", "d", " ", "T",
          "e", "c", "h", "n", "o", "l", "o", "g", "y">>],
      [pattern |-> Cat(<<Bol, Lit(<<"u", "d", "s", "t">>)>>),
          standard |-> <<"U", "n", "i", "v", "e", "r", "s", "i", "t", "y",
          " ", "o", "f", " ", "D", "o", "h", "a", " ", "f", "o", "r", " ",
          "S", "c", "i", "e", "n", "c", "e", " ", "a", "n", "d", " ", "T",
          "e", "c", "h", "n", "o", "l", "o", "g", "y">>],
      [pattern |-> Cat(<<Lit(<<"q", "a", "t", "a", "r">>),
          Star(OneOf(Whitespace)), Lit(<<"f", "e", "r", "t", "i", "l", "i",
          "s", "e", "r">>)>>), standard |-> <<"Q", "a", "t", "a", "r", " ",
          "F", "e", "r", "t", "i", "l", "i", "s", "e", "r", " ", "C", "o",
          "m", "p", "a", "n", "y">>],
      [pattern |-> Cat(<<Lit(<<"a", "n", "t", "i">>), Star(AnyChar), Lit(<<"d",
          "o", "p", "i", "n", "g">>), Star(AnyChar), Lit(<<"q", "a", "t", "a",
          "r">>)>>), standard |-> <<"A", "n", "t", "i", "-", "D", "o", "p",
          "i", "n", "g", " ", "L", "a", "b", " ", "Q", "a", "t", "a", "r">>],
      [pattern |-> Cat(<<Lit(<<"q", "a", "t", "a", "r">>),
          Star(OneOf(Whitespace)), Lit(<<"i", "n", "v", "e", "s", "t">>),
          Star(AnyChar), Lit(<<"a", "u", "t", "h", "o", "r", "i", "t", "y">>)>>),
          standard |-> <<"Q", "a", "t", "a", "r", " ", "I", "n", "v", "e",
          "s", "t", "m", "e", "n", "t", " ", "A", "u", "t", "h", "o", "r",
          "i", "t", "y">>],
      [pattern |-> Cat(<<Bol, Lit(<<"q", "i", "a">>), Star(OneOf(Whitespace)),
          Eol>>), standard |-> <<"Q", "a", "t", "a", "r", " ", "I", "n", "v",
          "e", "s", "t", "m", "e", "n", "t", " ", "A", "u", "t", "h", "o",
          "r", "i", "t", "y">>],
      [pattern |-> Cat(<<Lit(<<"q", "a", "t", "a", "r">>),
          Star(OneOf(Whitespace)), Lit(<<"p", "e", "t", "r", "o", "l", "e",
          "u", "m">>)>>), standard |-> <<"Q", "a", "t", "a", "r", " ", "P",
          "e", "t", "r", "o", "l", "e", "u", "m">>],
      [pattern |-> Cat(<<Bol, Lit(<<"q", "p">>), Star(OneOf(Whitespace)),
          Eol>>), standard |-> <<"Q", "a", "t", "a", "r", " ", "P", "e", "t",
          "r", "o", "l", "e", "u", "m">>],
      [pattern |-> Cat(<<Lit(<<"q", "a", "t", "a", "r">>),
          Star(OneOf(Whitespace)), Lit(<<"e", "n", "e", "r", "g", "y">>)>>),
          standard |-> <<"Q", "a", "t", "a", "r", " ", "E", "n", "e", "r",
          "g", "y">>],
      [pattern |-> Cat(<<Lit(<<"q", "a", "t", "a", "r">>),
          Star(OneOf(Whitespace)), Lit(<<"n", "a", "t", "i", "o", "n", "a",
          "l">>), Star(OneOf(Whitespace)), Lit(<<"r", "e", "s", "e", "a", "r",
          "c", "h">>), Star(OneOf(Whitespace)), Lit(<<"f", "u", "n",
          "d">>)>>), standard |-> <<"Q", "a", "t", "a", "r", " ", "N", "a",
          "t", "i", "o", "n", "a", "l", " ", "R", "e", "s", "e", "a", "r",
          "c", "h", " ", "F", "u", "n", "d">>],
      [pattern |-> Cat(<<Bol, Lit(<<"q", "n", "r", "f">>),
          Star(OneOf(Whitespace)), Eol>>), standard |-> <<"Q", "a", "t", "a",
          "r", " ", "N", "a", "t", "i", "o", "n", "a", "l", " ", "R", "e",
          "s", "e", "a", "r", "c", "h", " ", "F", "u", "n", "d">>],
      [pattern |-> Cat(<<Lit(<<"q", "a", "t", "a", "r">>),
          Star(OneOf(Whitespace)), Lit(<<"b", "i", "o", "b", "a", "n",
          "k">>)>>), standard |-> <<"Q", "a", "t", "a", "r", " ", "B", "i",
          "o", "b", "a", "n", "k">>],
      [pattern |-> Cat(<<Lit(<<"q", "a", "t", "a", "r">>),
          Star(OneOf(Whitespace)), Lit(<<"g", "e", "n", "o", "m", "e">>)>>),
          standard |-> <<"Q", "a", "t", "a", "r", " ", "G", "e", "n", "o",
          "m", "e", " ", "P", "r", "o", "g", "r", "a", "m", "m", "e">>],
      [pattern |-> Cat(<<Lit(<<"q", "a", "t", "a", "r">>),
          Star(OneOf(Whitespace)), Lit(<<"c", "o", "m", "p", "u", "t", "i",
          "n", "g">>), Star(OneOf(Whitespace)), Lit(<<"r", "e", "s", "e", "a",
          "r", "c", "h">>)>>), standard |-> <<"Q", "a", "t", "a", "r", " ",
          "C", "o", "m", "p", "u", "t", "i", "n", "g", " ", "R", "e", "s",
          "e", "a", "r", "c", "h", " ", "I", "n", "s", "t", "i", "t", "u",
          "t", "e">>],
      [pattern |-> Cat(<<Bol, Lit(<<"q", "c", "r", "i">>),
          Star(OneOf(Whitespace)), Eol>>), standard |-> <<"Q", "a", "t", "a",
          "r", " ", "C", "o", "m", "p", "u", "t", "i", "n", "g", " ", "R",
          "e", "s", "e", "a", "r", "c", "h", " ", "I", "n", "s", "t", "i",
          "t", "u", "t", "e">>],
      [pattern |-> Cat(<<Lit(<<"q", "a", "t", "a", "r">>),
          Star(OneOf(Whitespace)), Lit(<<"e", "n", "v", "i", "r", "o", "n",
          "m", "e", "n", "t">>), Star(AnyChar), Lit(<<"e", "n", "e", "r", "g",
          "y">>)>>), standard |-> <<"Q", "a", "t", "a", "r", " ", "E", "n",
          "v", "i", "r", "o", "n", "m", "e", "n", "t", " ", "a", "n", "d",
          " ", "E", "n", "e", "r", "g", "y", " ", "R", "e", "s", "e", "a",
          "r", "c", "h", " ", "I", "n", "s", "t", "i", "t", "u", "t", "e">>],
      [pattern |-> Cat(<<Bol, Lit(<<"q", "e", "e", "r", "i">>),
          Star(OneOf(Whitespace)), Eol>>), standard |-> <<"Q", "a", "t", "a",
          "r", " ", "E", "n", "v", "i", "r", "o", "n", "m", "e", "n", "t",
          " ", "a", "n", "d", " ", "E", "n", "e", "r", "g", "y", " ", "R",
          "e", "s", "e", "a", "r", "c", "h", " ", "I", "n", "s", "t", "i",
          "t", "u", "t", "e">>],
      [pattern |-> Cat(<<Lit(<<"q", "a", "t", "a", "r">>),
          Star(OneOf(Whitespace)), Lit(<<"b", "i", "o", "m", "e", "d", "i",
          "c", "a", "l">>), Star(OneOf(Whitespace)), Lit(<<"r", "e", "s", "e",
          "a", "r", "c", "h">>)>>), standard |-> <<"Q", "a", "t", "a", "r",
          " ", "B", "i", "o", "m", "e", "d", "i", "c", "a", "l", " ", "R",
          "e", "s", "e", "a", "r", "c", "h", " ", "I", "n", "s", "t", "i",
          "t", "u", "t", "e">>],
      [pattern |-> Cat(<<Bol, Lit(<<"q", "b", "r", "i">>),
          Star(OneOf(Whitespace)), Eol>>), standard |-> <<"Q", "a", "t", "a",
          "r", " ", "B", "i", "o", "m", "e", "d", "i", "c", "a", "l", " ",
          "R", "e", "s", "e", "a", "r", "c", "h", " ", "I", "n", "s", "t",
          "i", "t", "u", "t", "e">>],
      [pattern |-> Cat(<<Lit(<<"i", "b", "e", "r", "d", "r", "o", "l", "a">>),
          Star(OneOf(Whitespace)), Lit(<<"q", "s", "t", "p">>)>>),
          standard |-> <<"I", "b", "e", "r", "d", "r", "o", "l", "a", " ",
          "Q", "S", "T", "P", " ", "L", "L", "C">>]
    >>

CountryCode ==
    Cat(<<Star(OneOf(Whitespace)), Lit(<<"[">>), Cat(<<OneOf(UpperSet),
        OneOf(UpperSet)>>), Lit(<<"]">>), Star(OneOf(Whitespace))>>)

(***************************************************************************)
(* PatentCleaner._standardize_institutions.                                *)
(***************************************************************************)
\* the name matches one of GARBAGE_FRAGMENTS
is_garbage(name_lower) ==
    \E i \in 1..Len(GARBAGE_FRAGMENTS) :
        re_match(GARBAGE_FRAGMENTS[i], name_lower)

\* the first pattern of the table found anywhere in the name, 0 when none is
first_match_search(name_lower) ==
    LET hits == {i \in 1..Len(INSTITUTION_STANDARDS) :
                    re_search(INSTITUTION_STANDARDS[i].pattern, name_lower)}
    IN  IF hits = {} THEN 0
        ELSE CHOOSE i \in hits : \A j \in hits : i <= j

\* for pattern, standard in INSTITUTION_STANDARDS.items(): the place of the
\* first pattern that matches, 0 when none does
first_match(name_lower) ==
    LET hits == {i \in 1..Len(INSTITUTION_STANDARDS) :
                    re_match(INSTITUTION_STANDARDS[i].pattern, name_lower)}
    IN  IF hits = {} THEN 0
        ELSE CHOOSE i \in hits : \A j \in hits : i <= j

\* ALL CAPS to Title Case, acronyms of up to three letters kept
title_case_caps(name) ==
    LET words == split_words(name)
    IN  IF isupper(name) /\ Len(name) > 4
        THEN str_join([k \in 1..Len(words) |->
                          IF Len(words[k]) <= 3 /\ isalpha(words[k])
                          THEN words[k]
                          ELSE str_title(words[k])], <<" ">>)
        ELSE name

\* "LASTNAME, FIRSTNAME" to "FIRSTNAME LASTNAME"
swap_comma(name) ==
    LET parts == str_split(name, ",")
        swapped == str_strip(parts[2]) \o <<" ">> \o str_strip(parts[1])
    IN  IF /\ Len(parts) = 2
           /\ Len(split_words(parts[1])) = 1
           /\ Len(split_words(str_strip(parts[2]))) <= 2
        THEN IF isupper(swapped) THEN str_title(swapped) ELSE swapped
        ELSE name

\* name = str(name).strip(), without its country codes, .strip(' ,;.')
strip_name(name) ==
    strip_chars(re_sub(CountryCode, str_strip(name)), {" ", ",", ";", "."})

\* the lookup in INSTITUTION_STANDARDS, and what follows it when none matches
standardize_known(name, name_lower) ==
    CHOOSE out \in
        {IF hit # 0 THEN INSTITUTION_STANDARDS[hit].standard
         ELSE str_strip(swap_comma(title_case_caps(name))) :
            hit \in {first_match(name_lower)}} : TRUE

\* standardize_name without the test against GARBAGE_FRAGMENTS
standardize_name_keep_garbage(name) ==
    CHOOSE out \in
        UNION {{IF name = <<>> \/ stripped = <<>> THEN <<>>
                ELSE standardize_known(stripped, name_lower) :
                   name_lower \in {str_strip(str_lower(stripped))}} :
               stripped \in {strip_name(name)}} : TRUE

\* _standardize_institutions.standardize_name
standardize_name(name) ==
    CHOOSE out \in
        UNION {{IF name = <<>> \/ stripped = <<>> THEN <<>>
                ELSE IF is_garbage(name_lower) THEN <<>>
                ELSE standardize_known(stripped, name_lower) :
                   name_lower \in {str_strip(str_lower(stripped))}} :
               stripped \in {strip_name(name)}} : TRUE

\* re.sub(r'[^a-z0-9]', '', p.lower())
norm_key(p) == SelectSeq(str_lower(p), LAMBDA c : c \in LowerSet \cup Digits)

\* the loop of clean_name_field from part n on: cleaned and seen so far
RECURSIVE cleaned_names(_, _, _, _)
cleaned_names(parts, n, cleaned, seen) ==
    IF n > Len(parts) THEN cleaned
    ELSE CHOOSE out \in
             UNION {{IF p # <<>> /\ Len(key) > 1 /\ key \notin seen
                     THEN cleaned_names(parts, n + 1, Append(cleaned, p),
                                        seen \cup {key})
                     ELSE cleaned_names(parts, n + 1, cleaned, seen) :
                        key \in {norm_key(p)}} :
                    p \in {standardize_name(parts[n])}} : TRUE

\* clean_name_field that keeps every standardized part
clean_name_field_keep_all(value) ==
    IF isna(value) \/ value = <<>> THEN <<>>
    ELSE LET parts == str_split(value, ";")
         IN  str_join(SelectSeq([k \in 1..Len(parts) |->
                                    standardize_name(parts[k])],
                                LAMBDA p : p # <<>>),
                      <<";", " ">>)

\* _standardize_institutions.clean_name_field
clean_name_field(value) ==
    IF isna(value) \/ value = <<>> THEN <<>>
    ELSE str_join(cleaned_names(str_split(value, ";"), 1, <<>>, {}),
                  <<";", " ">>)

(***************************************************************************)
(* LensExtractor: is a party an organization, and a Qatari one.            *)
(***************************************************************************)
\* sub in s
Contains(sub, s) ==
    \E i \in 1..(Len(s) - Len(sub) + 1) : SubSeq(s, i, i + Len(sub) - 1) = sub

\* s.endswith(suffix)
endswith(s, suffix) ==
    /\ Len(suffix) <= Len(s)
    /\ SubSeq(s, Len(s) - Len(suffix) + 1, Len(s)) = suffix

\* any(sub in s for sub in subs)
ContainsAny(subs, s) == \E k \in 1..Len(subs) : Contains(subs[k], s)

\* config.ORGANIZATION_KEYWORDS
ORGANIZATION_KEYWORDS ==
    << <<"u", "n", "i", "v", "e", "r", "s", "i", "t", "y">>, <<"u", "n", "i",
       "v">>, <<"c", "o", "l", "l", "e", "g", "e">>, <<"i", "n", "s", "t",
       "i", "t", "u", "t", "e">>, <<"i", "n", "s", "t", "i", "t", "u", "t",
       "i", "o", "n">>, <<"f", "o", "u", "n", "d", "a", "t", "i", "o", "n">>,
       <<"c", "o", "r", "p", "o", "r", "a", "t", "i", "o", "n">>, <<"c", "o",
       "r", "p">>, <<"c", "o", "m", "p", "a", "n", "y">>, <<"c", "o">>, <<"h",
       "o", "s", "p", "i", "t", "a", "l">>, <<"m", "e", "d", "i", "c", "a",
       "l">>, <<"m", "e", "d", "i", "c", "i", "n", "e">>, <<"c", "l", "i",
       "n", "i", "c">>, <<"h", "e", "a", "l", "t", "h">>, <<"r", "e", "s",
       "e", "a", "r", "c", "h">>, <<"l", "a", "b", "o", "r", "a", "t", "o",
       "r", "y">>, <<"l", "a", "b">>, <<"c", "e", "n", "t", "e", "r">>, <<"c",
       "e", "n", "t", "r", "e">>, <<"a", "u", "t", "h", "o", "r", "i", "t",
       "y">>, <<"m", "i", "n", "i", "s", "t", "r", "y">>, <<"g", "o", "v",
       "e", "r", "n", "m", "e", "n", "t">>, <<"c", "o", "u", "n", "c", "i",
       "l">>, <<"b", "a", "n", "k">>, <<"p", "e", "t", "r", "o", "l", "e",
       "u", "m">>, <<"o", "i", "l">>, <<"g", "a", "s">>, <<"e", "n", "e", "r",
       "g", "y">>, <<"q", "a", "t", "a", "r">>, <<"q", "f">>, <<"q", "u">>,
       <<"h", "b", "k", "u">>, <<"h", "m", "c">>, <<"s", "i", "d", "r", "a">>,
       <<"t", "e", "x", "a", "s", " ", "a", "&", "m">>, <<"w", "e", "i", "l",
       "l", " ", "c", "o", "r", "n", "e", "l", "l">>, <<"c", "a", "r", "n",
       "e", "g", "i", "e", " ", "m", "e", "l", "l", "o", "n">>, <<"n", "o",
       "r", "t", "h", "w", "e", "s", "t", "e", "r", "n">>, <<"g", "e", "o",
       "r", "g", "e", "t", "o", "w", "n">>, <<"v", "i", "r", "g", "i", "n",
       "i", "a", " ", "c", "o", "m", "m", "o", "n", "w", "e", "a", "l", "t",
       "h">>, <<"n", "o", "r", "t", "h", " ", "a", "t", "l", "a", "n", "t",
       "i", "c">>, <<"i", "b", "e", "r", "d", "r", "o", "l", "a">>, <<"m",
       "a", "e", "r", "s", "k">>, <<"e", "x", "x", "o", "n">>, <<"s", "h",
       "e", "l", "l">>, <<"t", "o", "t", "a", "l">>, <<"l", "l", "c">>, <<"l",
       "t", "d">>, <<"i", "n", "c">>, <<"p", "l", "c">>, <<"s", "a">>, <<"a",
       "s">>, <<"a", "g">>, <<"g", "m", "b", "h">>, <<"b", "v">>, <<"n",
       "v">>, <<"s", "p", "a">>, <<"s", "r", "l">> >>

\* config.QATAR_ORGANIZATIONS
QATAR_ORGANIZATIONS ==
    << <<"Q", "a", "t", "a", "r", " ", "F", "o", "u", "n", "d", "a", "t", "i",
       "o", "n", " ", "f", "o", "r", " ", "E", "d", "u", "c", "a", "t", "i",
       "o", "n", ",", " ", "S", "c", "i", "e", "n", "c", "e", " ", "a", "n",
       "d", " ", "C", "o", "m", "m", "u", "n", "i", "t", "y", " ", "D", "e",
       "v", "e", "l", "o", "p", "m", "e", "n", "t">>, <<"Q", "a", "t", "a",
       "r", " ", "U", "n", "i", "v", "e", "r", "s", "i", "t", "y">>, <<"H",
       "a", "m", "a", "d", " ", "M", "e", "d", "i", "c", "a", "l", " ", "C",
       "o", "r", "p", "o", "r", "a", "t", "i", "o", "n">>, <<"S", "i", "d",
       "r", "a", " ", "M", "e", "d", "i", "c", "i", "n", "e">>, <<"H", "a",
       "m", "a", "d", " ", "B", "i", "n", " ", "K", "h", "a", "l", "i", "f",
       "a", " ", "U", "n", "i", "v", "e", "r", "s", "i", "t", "y">>, <<"T",
       "e", "x", "a", "s", " ", "A", "&", "M", " ", "U", "n", "i", "v", "e",
       "r", "s", "i", "t", "y", " ", "a", "t", " ", "Q", "a", "t", "a", "r">>,
       <<"W", "e", "i", "l", "l", " ", "C", "o", "r", "n", "e", "l", "l", " ",
       "M", "e", "d", "i", "c", "i", "n", "e", "-", "Q", "a", "t", "a", "r">>,
       <<"C", "a", "r", "n", "e", "g", "i", "e", " ", "M", "e", "l", "l", "o",
       "n", " ", "U", "n", "i", "v", "e", "r", "s", "i", "t", "y", " ", "i",
       "n", " ", "Q", "a", "t", "a", "r">>, <<"N", "o", "r", "t", "h", "w",
       "e", "s", "t", "e", "r", "n", " ", "U", "n", "i", "v", "e", "r", "s",
       "i", "t", "y", " ", "i", "n", " ", "Q", "a", "t", "a", "r">>, <<"G",
       "e", "o", "r", "g", "e", "t", "o", "w", "n", " ", "U", "n", "i", "v",
       "e", "r", "s", "i", "t", "y", " ", "i", "n", " ", "Q", "a", "t", "a",
       "r">>, <<"V", "i", "r", "g", "i", "n", "i", "a", " ", "C", "o", "m",
       "m", "o", "n", "w", "e", "a", "l", "t", "h", " ", "U", "n", "i", "v",
       "e", "r", "s", "i", "t", "y", " ", "i", "n", " ", "Q", "a", "t", "a",
       "r">>, <<"C", "o", "l", "l", "e", "g", "e", " ", "o", "f", " ", "t",
       "h", "e", " ", "N", "o", "r", "t", "h", " ", "A", "t", "l", "a", "n",
       "t", "i", "c", " ", "Q", "a", "t", "a", "r">>, <<"U", "n", "i", "v",
       "e", "r", "s", "i", "t", "y", " ", "o", "f", " ", "D", "o", "h", "a",
       " ", "f", "o", "r", " ", "S", "c", "i", "e", "n", "c", "e", " ", "a",
       "n", "d", " ", "T", "e", "c", "h", "n", "o", "l", "o", "g", "y">>,
       <<"Q", "a", "t", "a", "r", " ", "P", "e", "t", "r", "o", "l", "e", "u",
       "m">>, <<"Q", "a", "t", "a", "r", " ", "E", "n", "e", "r", "g", "y">>,
       <<"Q", "a", "t", "a", "r", " ", "N", "a", "t", "i", "o", "n", "a", "l",
       " ", "R", "e", "s", "e", "a", "r", "c", "h", " ", "F", "u", "n", "d">>,
       <<"Q", "a", "t", "a", "r", " ", "C", "o", "m", "p", "u", "t", "i", "n",
       "g", " ", "R", "e", "s", "e", "a", "r", "c", "h", " ", "I", "n", "s",
       "t", "i", "t", "u", "t", "e">>, <<"Q", "a", "t", "a", "r", " ", "E",
       "n", "v", "i", "r", "o", "n", "m", "e", "n", "t", " ", "a", "n", "d",
       " ", "E", "n", "e", "r", "g", "y", " ", "R", "e", "s", "e", "a", "r",
       "c", "h", " ", "I", "n", "s", "t", "i", "t", "u", "t", "e">>, <<"Q",
       "a", "t", "a", "r", " ", "B", "i", "o", "m", "e", "d", "i", "c", "a",
       "l", " ", "R", "e", "s", "e", "a", "r", "c", "h", " ", "I", "n", "s",
       "t", "i", "t", "u", "t", "e">>, <<"Q", "a", "t", "a", "r", " ", "B",
       "i", "o", "b", "a", "n", "k">>, <<"Q", "a", "t", "a", "r", " ", "G",
       "e", "n", "o", "m", "e", " ", "P", "r", "o", "g", "r", "a", "m", "m",
       "e">>, <<"Q", "a", "t", "a", "r", " ", "I", "n", "v", "e", "s", "t",
       "m", "e", "n", "t", " ", "A", "u", "t", "h", "o", "r", "i", "t", "y">>,
       <<"Q", "a", "t", "a", "r", " ", "F", "o", "o", "t", "b", "a", "l", "l",
       " ", "A", "s", "s", "o", "c", "i", "a", "t", "i", "o", "n">>, <<"Q",
       "a", "t", "a", "r", " ", "M", "i", "n", "i", "s", "t", "r", "y", " ",
       "o", "f", " ", "E", "d", "u", "c", "a", "t", "i", "o", "n", " ", "a",
       "n", "d", " ", "H", "i", "g", "h", "e", "r", " ", "E", "d", "u", "c",
       "a", "t", "i", "o", "n">>, <<"M", "a", "e", "r", "s", "k", " ", "O",
       "i", "l", " ", "Q", "a", "t", "a", "r", " ", "A", "S">>, <<"I", "b",
       "e", "r", "d", "r", "o", "l", "a", " ", "Q", "S", "T", "P", " ", "L",
       "L", "C">>, <<"A", "n", "t", "i", "-", "D", "o", "p", "i", "n", "g",
       " ", "L", "a", "b", " ", "Q", "a", "t", "a", "r">>, <<"Q", "a", "t",
       "a", "r", " ", "F", "e", "r", "t", "i", "l", "i", "s", "e", "r", " ",
       "C", "o", "m", "p", "a", "n", "y">>, <<"Q", "a", "t", "a", "r", " ",
       "A", "i", "r", "w", "a", "y", "s">>, <<"Q", "a", "t", "a", "r", " ",
       "N", "a", "t", "i", "o", "n", "a", "l", " ", "B", "a", "n", "k">>,
       <<"O", "o", "r", "e", "d", "o", "o">>, <<"K", "a", "h", "r", "a", "m",
       "a", "a">>, <<"A", "s", "h", "g", "h", "a", "l">>, <<"Q", "a", "t",
       "a", "r", " ", "R", "a", "i", "l">>, <<"Q", "a", "t", "a", "r", " ",
       "M", "u", "s", "e", "u", "m", "s">>, <<"Q", "a", "t", "a", "r", " ",
       "S", "c", "i", "e", "n", "c", "e", " ", "a", "n", "d", " ", "T", "e",
       "c", "h", "n", "o", "l", "o", "g", "y", " ", "P", "a", "r", "k">>,
       <<"Q", "S", "T", "P">> >>

\* what a person's name does not hold
org_patterns ==
    << <<"&">>, <<"a", "n", "d">>, <<",">>, <<".">>, <<"o", "f">>, <<"f", "o",
       "r">>, <<"t", "h", "e">> >>

\* suffixes of foreign company forms
foreign_suffixes ==
    << <<" ", "p", "t", "y", " ", "l", "t", "d">>, <<" ", "p", "t", "y", ".",
       " ", "l", "t", "d">>, <<" ", "g", "m", "b", "h">>, <<" ", "a", "g">>,
       <<" ", "b", ".", "v", ".">>, <<" ", "b", "v">>, <<" ", "a", ".", "s",
       ".">>, <<" ", "s", ".", "a", ".">>, <<" ", "s", "p", "a">>, <<" ", "s",
       "r", "l">> >>

\* names of foreign companies
foreign_companies ==
    << <<"t", "o", "y", "o", "t", "a">>, <<"h", "o", "n", "d", "a">>, <<"h",
       "y", "u", "n", "d", "a", "i">>, <<"f", "o", "r", "d">>, <<"g", "e",
       "n", "e", "r", "a", "l", " ", "m", "o", "t", "o", "r", "s">>, <<"g",
       "m", " ">>, <<"v", "o", "l", "k", "s", "w", "a", "g", "e", "n">>,
       <<"b", "m", "w">>, <<"m", "e", "r", "c", "e", "d", "e", "s">>, <<"n",
       "i", "s", "s", "a", "n">>, <<"m", "a", "z", "d", "a">>, <<"s", "u",
       "b", "a", "r", "u">>, <<"s", "a", "m", "s", "u", "n", "g">>, <<"s",
       "o", "n", "y">>, <<"l", "g", " ", "e", "l", "e", "c", "t", "r", "o",
       "n", "i", "c", "s">>, <<"p", "a", "n", "a", "s", "o", "n", "i", "c">>,
       <<"p", "h", "i", "l", "i", "p", "s">>, <<"m", "i", "c", "r", "o", "s",
       "o", "f", "t">>, <<"g", "o", "o", "g", "l", "e">>, <<"a", "p", "p",
       "l", "e">>, <<"a", "m", "a", "z", "o", "n">>, <<"m", "e", "t", "a">>,
       <<"i", "n", "t", "e", "l">>, <<"i", "b", "m">>, <<"h", "u", "a", "w",
       "e", "i">>, <<"x", "i", "a", "o", "m", "i">>, <<"l", "e", "n", "o",
       "v", "o">>, <<"d", "e", "l", "l">>, <<"h", "p", " ">>, <<"b", "o", "e",
       "i", "n", "g">>, <<"a", "i", "r", "b", "u", "s">>, <<"s", "i", "e",
       "m", "e", "n", "s">>, <<"h", "o", "n", "e", "y", "w", "e", "l", "l">>,
       <<"g", "e", " ">>, <<"g", "e", "n", "e", "r", "a", "l", " ", "e", "l",
       "e", "c", "t", "r", "i", "c">>, <<"l", "o", "c", "k", "h", "e", "e",
       "d">>, <<"r", "a", "y", "t", "h", "e", "o", "n">>, <<"n", "o", "r",
       "t", "h", "r", "o", "p">>, <<"e", "x", "x", "o", "n">>, <<"c", "h",
       "e", "v", "r", "o", "n">>, <<"b", "p", " ">>, <<"t", "o", "t", "a",
       "l", " ">>, <<"c", "o", "n", "o", "c", "o", "p", "h", "i", "l", "l",
       "i", "p", "s">>, <<"p", "f", "i", "z", "e", "r">>, <<"n", "o", "v",
       "a", "r", "t", "i", "s">>, <<"r", "o", "c", "h", "e">>, <<"m", "e",
       "r", "c", "k">>, <<"j", "o", "h", "n", "s", "o", "n", " ", "&", " ",
       "j", "o", "h", "n", "s", "o", "n">>, <<"j", "&", "j">>, <<"g", "l",
       "a", "x", "o">>, <<"a", "s", "t", "r", "a", "z", "e", "n", "e", "c",
       "a">>, <<"s", "a", "n", "o", "f", "i">>, <<"b", "a", "y", "e", "r">>,
       <<"p", "u", "r", "d", "u", "e">>, <<"m", "i", "t", " ">>, <<"s", "t",
       "a", "n", "f", "o", "r", "d">>, <<"h", "a", "r", "v", "a", "r", "d">>,
       <<"o", "x", "f", "o", "r", "d">>, <<"c", "a", "m", "b", "r", "i", "d",
       "g", "e">>, <<"y", "a", "l", "e">>, <<"p", "r", "i", "n", "c", "e",
       "t", "o", "n">>, <<"b", "e", "r", "k", "e", "l", "e", "y">>, <<"c",
       "a", "l", "t", "e", "c", "h">>, <<"u", "c", "l", "a">>, <<"e", "t",
       "h", " ", "z", "u", "r", "i", "c", "h">> >>

\* Qatar-specific identifiers
qatar_identifiers ==
    << <<"q", "a", "t", "a", "r">>, <<"q", "a", "t", "a", "r", "i">>, <<"d",
       "o", "h", "a">>, <<"h", "b", "k", "u">>, <<"h", "m", "c">>, <<"s", "i",
       "d", "r", "a">>, <<"h", "a", "m", "a", "d", " ", "b", "i", "n", " ",
       "k", "h", "a", "l", "i", "f", "a">>, <<"a", "s", "p", "i", "r", "e",
       " ", "z", "o", "n", "e">>, <<"k", "a", "h", "r", "a", "m", "a", "a">>,
       <<"a", "s", "h", "g", "h", "a", "l">>, <<"o", "o", "r", "e", "d", "o",
       "o">>, <<"q", "s", "t", "p">>, <<"q", "n", "r", "f">>, <<"q", "c", "r",
       "i">>, <<"q", "e", "e", "r", "i">>, <<"q", "b", "r", "i">> >>

\* Education City universities, whose main campus is elsewhere
edu_city_names ==
    << <<"t", "e", "x", "a", "s", " ", "a", "&", "m">>, <<"w", "e", "i", "l",
       "l", " ", "c", "o", "r", "n", "e", "l", "l">>, <<"c", "a", "r", "n",
       "e", "g", "i", "e", " ", "m", "e", "l", "l", "o", "n">>, <<"n", "o",
       "r", "t", "h", "w", "e", "s", "t", "e", "r", "n">>, <<"g", "e", "o",
       "r", "g", "e", "t", "o", "w", "n">>, <<"v", "i", "r", "g", "i", "n",
       "i", "a", " ", "c", "o", "m", "m", "o", "n", "w", "e", "a", "l", "t",
       "h">>, <<"c", "o", "l", "l", "e", "g", "e", " ", "o", "f", " ", "t",
       "h", "e", " ", "n", "o", "r", "t", "h", " ", "a", "t", "l", "a", "n",
       "t", "i", "c">>, <<"n", "o", "r", "t", "h", " ", "a", "t", "l", "a",
       "n", "t", "i", "c">> >>

QA == <<"Q", "A">>

\* the length from which a word is too long for a person's name
PersonWordLen == 15

\* org.lower() in name_lower or name_lower in org.lower(), for some org
registry_match(name_lower) ==
    \E k \in 1..Len(QATAR_ORGANIZATIONS) :
        \A org \in {str_lower(QATAR_ORGANIZATIONS[k])} :
            Contains(org, name_lower) \/ Contains(name_lower, org)

\* the heuristic for the name of an individual
looks_like_person(name, name_lower) ==
    \A words \in {split_words(name)} :
        /\ Len(words) >= 2 /\ Len(words) <= 4
        /\ \A k \in 1..Len(words) : Len(words[k]) < PersonWordLen
        /\ \A i \in 1..Len(name) : name[i] \notin Digits
        /\ ~ContainsAny(org_patterns, name_lower)
        /\ ~Contains(<<"q", "a", "t", "a", "r">>, name_lower)

\* the heuristic applied before the keywords are looked for
_is_organization_person_first(name) ==
    IF name = <<>> THEN FALSE
    ELSE \A name_lower \in {str_strip(str_lower(name))} :
            ~looks_like_person(name, name_lower)

\* a name without a keyword or a registry match is not an organization
_is_organization_default_false(name) ==
    IF name = <<>> THEN FALSE
    ELSE \A name_lower \in {str_strip(str_lower(name))} :
            \/ ContainsAny(ORGANIZATION_KEYWORDS, name_lower)
            \/ registry_match(name_lower)

_is_organization(name) ==
    IF name = <<>> THEN FALSE
    ELSE \A name_lower \in {str_strip(str_lower(name))} :
            \/ ContainsAny(ORGANIZATION_KEYWORDS, name_lower)
            \/ registry_match(name_lower)
            \/ ~looks_like_person(name, name_lower)

\* a foreign suffix (at the end, or with its leading space anywhere) or the
\* name of a foreign company
foreign_hit(name_lower) ==
    \/ \E k \in 1..Len(foreign_suffixes) :
        \/ endswith(name_lower, str_strip(foreign_suffixes[k]))
        \/ Contains(foreign_suffixes[k], name_lower)
    \/ ContainsAny(foreign_companies, name_lower)

\* 'qatar' in name_lower or 'doha' in name_lower
names_qatar(name_lower) ==
    \/ Contains(<<"q", "a", "t", "a", "r">>, name_lower)
    \/ Contains(<<"d", "o", "h", "a">>, name_lower)

\* the identifiers looked for before the foreign names
_is_qatar_organization_identifiers_first(name, residence, country) ==
    IF name = <<>> \/ ~_is_organization(name) THEN FALSE
    ELSE \A name_lower \in {str_strip(str_lower(name))} :
            IF ContainsAny(qatar_identifiers, name_lower) THEN TRUE
            ELSE IF foreign_hit(name_lower) /\ ~names_qatar(name_lower)
            THEN FALSE
            ELSE IF ContainsAny(edu_city_names, name_lower)
            THEN residence = QA \/ country = QA
            ELSE registry_match(name_lower)

\* the registry looked up before the Education City names
_is_qatar_organization_registry_first(name, residence, country) ==
    IF name = <<>> \/ ~_is_organization(name) THEN FALSE
    ELSE \A name_lower \in {str_strip(str_lower(name))} :
            IF foreign_hit(name_lower) /\ ~names_qatar(name_lower) THEN FALSE
            ELSE IF ContainsAny(qatar_identifiers, name_lower) THEN TRUE
            ELSE IF registry_match(name_lower) THEN TRUE
            ELSE /\ ContainsAny(edu_city_names, name_lower)
                 /\ residence = QA \/ country = QA

\* a QA residence accepted for every organization
_is_qatar_organization_by_residence(name, residence, country) ==
    IF name = <<>> \/ ~_is_organization(name) THEN FALSE
    ELSE \A name_lower \in {str_strip(str_lower(name))} :
            IF foreign_hit(name_lower) /\ ~names_qatar(name_lower) THEN FALSE
            ELSE IF ContainsAny(qatar_identifiers, name_lower) THEN TRUE
            ELSE \/ residence = QA \/ country = QA
                 \/ registry_match(name_lower)

_is_qatar_organization(name, residence, country) ==
    IF name = <<>> \/ ~_is_organization(name) THEN FALSE
    ELSE \A name_lower \in {str_strip(str_lower(name))} :
            IF foreign_hit(name_lower) /\ ~names_qatar(name_lower) THEN FALSE
            ELSE IF ContainsAny(qatar_identifiers, name_lower) THEN TRUE
            ELSE IF ContainsAny(edu_city_names, name_lower)
            THEN residence = QA \/ country = QA
            ELSE registry_match(name_lower)

(***************************************************************************)
(* The extractors: what a batch handed to clean() can hold.                *)
(***************************************************************************)
NoTitle == <<"NoTitle">>

\* a title of TitleKeyLen + 1 characters
LongTitle(c, last) == [i \in 1..TitleKeyLen |-> c] \o <<last>>

\* "{country} {doc_number} {kind}".strip()
app_number(country, doc_number, kind) ==
    str_strip(country \o <<" ">> \o doc_number \o <<" ">> \o kind)

NoDate == <<"NoDate">>

\* documents the EPO search returns (country and doc_number never empty) with
\* the invention-title of their biblio XML, NoTitle when it has none, and the
\* text of the date of their publication-reference, NoDate when it has none
EpoDocs ==
    { [country |-> <<"E", "P">>, doc_number |-> <<"1">>, kind |-> <<"A">>,
       title |-> LongTitle("a", "x"),
       date |-> <<"2", "0", "2", "0", "0", "1", "1", "5">>],
      [country |-> <<"E", "P">>, doc_number |-> <<"2">>, kind |-> <<>>,
       title |-> <<" ">> \o LongTitle("A", "y"), date |-> NoDate],
      [country |-> <<"E", "P">>, doc_number |-> <<"3">>, kind |-> <<>>,
       title |-> NoTitle, date |-> <<"2", "0", "2">>],
      [country |-> <<"E", "P">>, doc_number |-> <<"4">>, kind |-> <<>>,
       title |-> <<"U0416">>,
       date |-> <<"2", "0", "2", "0", "0", "1", "1", "5">>] }

\* EPOExtractor._parse_biblio: Title stays '' without an invention-title
_parse_biblio(doc) ==
    [ApplicationNumber |-> app_number(doc.country, doc.doc_number, doc.kind),
     Title |-> IF doc.title = NoTitle THEN <<>> ELSE doc.title,
     ApplicationDate |-> IF doc.date = NoDate THEN <<>> ELSE doc.date,
     PatentYear |-> IF doc.date = NoDate \/ Len(doc.date) < 4 THEN <<>>
                    ELSE Prefix(doc.date, 4),
     Source |-> "EPO"]

\* records the Lens search returns, with their English invention_title and
\* their date_published ('' when the record has none)
LensDocs ==
    { [jurisdiction |-> <<"E", "P">>, doc_number |-> <<"1", "A">>,
       kind |-> <<>>, title |-> <<"W", "x">>,
       date_published |-> <<"2", "0", "2", "1", "-", "0", "3", "-", "0", "4">>],
      [jurisdiction |-> <<>>, doc_number |-> <<>>, kind |-> <<>>,
       title |-> <<"T">>, date_published |-> <<>>],
      [jurisdiction |-> <<"E", "P">>, doc_number |-> <<"7">>, kind |-> <<>>,
       title |-> NoTitle, date_published |-> <<>>] }

\* LensExtractor._parse_patent
_parse_patent(doc) ==
    [ApplicationNumber |->
        app_number(doc.jurisdiction, doc.doc_number, doc.kind),
     Title |-> IF doc.title = NoTitle THEN <<>> ELSE doc.title,
     ApplicationDate |-> doc.date_published,
     PatentYear |-> IF doc.date_published # <<>>
                        /\ Len(doc.date_published) >= 4
                    THEN Prefix(doc.date_published, 4) ELSE <<>>,
     Source |-> "Lens"]

\* LensExtractor.extract_all: only parsed records with a Title are kept
LensPatents == {p \in {_parse_patent(d) : d \in LensDocs} : p.Title # <<>>}

EpoPatents == {_parse_biblio(d) : d \in EpoDocs}

SeqsUpTo(S, n) == UNION {[1..k -> S] : k \in 0..n}

NoRepeat(seq) == \A i, j \in 1..Len(seq) : i # j => seq[i] # seq[j]

\* all_patents: the EPO records (one per document) then the Lens records;
\* the run stops before clean() when there are none
Batches ==
    { e \o l : e \in {x \in SeqsUpTo(EpoPatents, MaxBatch) : NoRepeat(x)},
               l \in SeqsUpTo(LensPatents, MaxBatch) }
    \cap {b \in SeqsUpTo(EpoPatents \cup LensPatents, MaxBatch) : Len(b) > 0}

(***************************************************************************)
(* The files a user uploads as the current patent list.                    *)
(***************************************************************************)
Row(app, title, date, year, rid, source) ==
    [ApplicationNumber |-> app, Title |-> title, ApplicationDate |-> date,
     PatentYear |-> year, ResourceId |-> rid, Source |-> source]

\* an empty list; a legacy list (ids out of order, a missing number, text not
\* yet normalized, a date still written YYYYMMDD, a year that is not the
\* date's); a list holding the same title twice
Uploads ==
    { <<>>,
      << Row(<<"E", "P", "-", "1", "a">>, <<"T">>,
             <<"2", "0", "1", "9", "0", "6", "0", "7">>,
             <<"2", "0", "1", "9">>, 60002, "WIPO"),
         Row(NaN, <<" ">> \o LongTitle("A", "z"),
             <<"2", "0", "1", "9", "-", "0", "6", "-", "0", "7">>,
             <<"2", "0", "1", "8">>, 60000, "WIPO") >>,
      << Row(<<"E", "P", " ", "9">>, <<"Z">>, NaN, NaN, 50001, "EPO"),
         Row(<<"E", "P", " ", "8">>, <<"Z", " ">>,
             <<"2", "0", "2", "0", "-", "0", "1", "-", "1", "5">>,
             <<"2", "0", "2", "0">>, 50000, "Lens") >> }

(***************************************************************************)
(* The update run of app.py.                                               *)
(***************************************************************************)
NoStats ==
    [input_count |-> 0, non_english_removed |-> 0, duplicates_removed |-> 0,
     output_count |-> 0]

\* no update run has started and no file exists
NoRun ==
    /\ pc = "idle"
    /\ upload = <<>> /\ upload_exists = FALSE
    /\ master = <<>> /\ master_exists = FALSE
    /\ alt_exists = FALSE
    /\ backup = <<>> /\ backup_exists = FALSE
    /\ patents = <<>> /\ cleaned_df = <<>>
    /\ loaded = FALSE /\ existing_df = <<>> /\ merged_df = <<>>
    /\ stats = NoStats /\ new_added = 0 /\ success = FALSE
    /\ runs = 0

\* no cell of a name column is followed
NoCell == raw = <<>> /\ field = <<>> /\ phase = "none"

\* no party is being classified
NoParty ==
    /\ party = [name |-> <<>>, residence |-> <<>>, country |-> <<>>]
    /\ calls = {}
    /\ organization = FALSE /\ qatar = FALSE

\* search_patents is not running
NoSearch ==
    /\ lens_pc = "none"
    /\ max_results = 0
    /\ all_patents = <<>> /\ offset = 0
    /\ lens_stats = [searched |-> 0, errors |-> 0]

\* the 'source' of a run's statistics: app.py, and the default of record_run
Sources == {"EPO+LENS", "unknown"}

\* _load_state without a state file; last_run 0 stands for None, and a
\* source that is no key of 'sources' has the count 0
DefaultState ==
    [last_run |-> 0, runs |-> <<>>, total_patents |-> 0,
     sources |-> [s \in Sources |-> 0]]

NoHistory == state = DefaultState /\ now = 0

Init ==
    /\ pc = "idle"
    /\ upload = <<>> /\ upload_exists = FALSE
    /\ master = <<>> /\ master_exists = FALSE
    /\ alt_exists = FALSE
    /\ backup = <<>> /\ backup_exists = FALSE
    /\ patents = <<>> /\ cleaned_df = <<>>
    /\ loaded = FALSE /\ existing_df = <<>> /\ merged_df = <<>>
    /\ stats = NoStats /\ new_added = 0 /\ success = FALSE
    /\ runs = 0
    /\ NoCell /\ NoParty /\ NoSearch /\ NoHistory

\* the file uploader: the file is read and written to temp_upload.xlsx
Upload(file) ==
    /\ pc = "idle"
    /\ upload' = read_excel(file)
    /\ upload_exists' = TRUE
    /\ UNCHANGED <<pc, master, master_exists, alt_exists, backup,
                   backup_exists, patents, cleaned_df, loaded, existing_df,
                   merged_df, stats, new_added, success, runs>>
    /\ UNCHANGED aux_vars

UploadList == \E file \in Uploads : Upload(file)

\* the user uploads the master file an earlier run wrote
UploadMaster == master_exists /\ Upload(master)

\* "Find New Patents": extraction, then cleaner.clean(all_patents)
CleanBatch(batch) ==
    /\ pc = "idle"
    /\ upload_exists
    /\ runs < MaxRuns
    /\ runs' = runs + 1
    /\ patents' = batch
    /\ cleaned_df' = clean(batch)
    /\ stats' = clean_stats(batch)
    /\ pc' = "cleaned"
    /\ UNCHANGED <<upload, upload_exists, master, master_exists, alt_exists,
                   backup, backup_exists, loaded, existing_df, merged_df,
                   new_added, success>>
    /\ UNCHANGED aux_vars

Clean == \E batch \in Batches : CleanBatch(batch)

\* new_count taken as the size of the merged dataset
new_count_total(merged, initial_count) == Len(merged)

\* stats['new_added'] = len(merged_df) - initial_count
new_count(merged, initial_count) == Len(merged) - initial_count

\* load_existing returned a DataFrame: merge_with_existing, which returns the
\* merged dataset and leaves its helper columns on cleaned_df
Merge ==
    /\ pc = "cleaned"
    /\ loaded' = TRUE
    /\ existing_df' = read_excel(upload)
    /\ merged_df' = merge_with_existing(cleaned_df, existing_df')
    /\ cleaned_df' = add_norm_columns(cleaned_df)
    /\ new_added' = new_count(merged_df', Len(existing_df'))
    /\ pc' = "merged"
    /\ UNCHANGED <<upload, upload_exists, master, master_exists, alt_exists,
                   backup, backup_exists, patents, stats, success, runs>>
    /\ UNCHANGED aux_vars

\* load_existing returned None (the file could not be read)
NoExisting ==
    /\ pc = "cleaned"
    /\ loaded' = FALSE
    /\ existing_df' = <<>>
    /\ merged_df' = cleaned_df
    /\ new_added' = Len(cleaned_df)
    /\ pc' = "merged"
    /\ UNCHANGED <<upload, upload_exists, master, master_exists, alt_exists,
                   backup, backup_exists, patents, cleaned_df, stats,
                   success, runs>>
    /\ UNCHANGED aux_vars

\* ExcelLoader.save, first step: the backup of an existing master file,
\* whose failure is only logged
Backup(ok) ==
    IF master_exists /\ ok
    THEN backup' = read_excel(master) /\ backup_exists' = TRUE
    ELSE UNCHANGED <<backup, backup_exists>>

\* df.to_excel(file_path) succeeded
SaveOk ==
    /\ pc = "merged"
    /\ \E ok \in BOOLEAN : Backup(ok)
    /\ master' = merged_df /\ master_exists' = TRUE
    /\ success' = TRUE
    /\ pc' = "saved"
    /\ UNCHANGED <<upload, upload_exists, alt_exists, patents, cleaned_df,
                   loaded, existing_df, merged_df, stats, new_added, runs>>
    /\ UNCHANGED aux_vars

\* PermissionError, and the alternative file name was written
SaveAlt ==
    /\ pc = "merged"
    /\ \E ok \in BOOLEAN : Backup(ok)
    /\ alt_exists' = TRUE
    /\ success' = TRUE
    /\ pc' = "saved"
    /\ UNCHANGED <<upload, upload_exists, master, master_exists, patents,
                   cleaned_df, loaded, existing_df, merged_df, stats,
                   new_added, runs>>
    /\ UNCHANGED aux_vars

\* to_excel raised (and, after a PermissionError, the alternative too)
SaveFailed ==
    /\ pc = "merged"
    /\ \E ok \in BOOLEAN : Backup(ok)
    /\ success' = FALSE
    /\ pc' = "saved"
    /\ UNCHANGED <<upload, upload_exists, master, master_exists, alt_exists,
                   patents, cleaned_df, loaded, existing_df, merged_df,
                   stats, new_added, runs>>
    /\ UNCHANGED aux_vars

\* the run is over: its locals (cleaner, DataFrames, stats) are gone
Done ==
    /\ pc = "saved"
    /\ pc' = "idle"
    /\ patents' = <<>> /\ cleaned_df' = <<>>
    /\ loaded' = FALSE /\ existing_df' = <<>> /\ merged_df' = <<>>
    /\ stats' = NoStats /\ new_added' = 0 /\ success' = FALSE
    /\ UNCHANGED <<upload, upload_exists, master, master_exists, alt_exists,
                   backup, backup_exists, runs>>
    /\ UNCHANGED aux_vars

Next ==
    \/ UploadList
    \/ UploadMaster
    \/ Clean
    \/ Merge
    \/ NoExisting
    \/ SaveOk
    \/ SaveAlt
    \/ SaveFailed
    \/ Done

Spec == Init /\ [][Next]_vars

\* master files an earlier session left in the data directory
EarlierMasters == {clean(<<p>>) : p \in {q \in EpoPatents : q.Title # <<>>}}

\* the application started on a data directory that holds a master file
InitMaster ==
    /\ pc = "idle"
    /\ upload = <<>> /\ upload_exists = FALSE
    /\ master \in EarlierMasters /\ master_exists = TRUE
    /\ alt_exists = FALSE
    /\ backup = <<>> /\ backup_exists = FALSE
    /\ patents = <<>> /\ cleaned_df = <<>>
    /\ loaded = FALSE /\ existing_df = <<>> /\ merged_df = <<>>
    /\ stats = NoStats /\ new_added = 0 /\ success = FALSE
    /\ runs = 0
    /\ NoCell /\ NoParty /\ NoSearch /\ NoHistory

SpecMaster == InitMaster /\ [][Next]_vars

(***************************************************************************)
(* clean() on batches in which the two sources report the same patent:     *)
(* the EPO records first, then the Lens records, as app.py collects them.  *)
(***************************************************************************)
MaxDup == 3

DupEpoPatents ==
    { _parse_biblio([country |-> <<"E", "P">>, doc_number |-> <<"2">>,
                     kind |-> <<>>, title |-> <<"T", "1">>, date |-> NoDate]),
      _parse_biblio([country |-> <<"E", "P">>, doc_number |-> <<"3">>,
                     kind |-> <<>>, title |-> <<"T", "2">>, date |-> NoDate]) }

DupLensPatents ==
    { _parse_patent([jurisdiction |-> <<"E", "P">>, doc_number |-> <<"1">>,
                     kind |-> <<>>, title |-> <<"t", "1">>,
                     date_published |-> <<>>]),
      _parse_patent([jurisdiction |-> <<"E", "P">>, doc_number |-> <<"1">>,
                     kind |-> <<>>, title |-> <<"T", "2">>,
                     date_published |-> <<>>]),
      _parse_patent([jurisdiction |-> <<"E", "P">>, doc_number |-> <<"5">>,
                     kind |-> <<>>, title |-> <<"U4E2D">>,
                     date_published |-> <<>>]) }

DupBatches ==
    { e \o l : e \in {x \in SeqsUpTo(DupEpoPatents, MaxDup) : NoRepeat(x)},
               l \in SeqsUpTo(DupLensPatents, MaxDup) }
    \cap {b \in SeqsUpTo(DupEpoPatents \cup DupLensPatents, MaxDup) :
             Len(b) > 0}

\* the user has uploaded a list without rows
CleanInit ==
    /\ pc = "idle"
    /\ upload = <<>> /\ upload_exists = TRUE
    /\ master = <<>> /\ master_exists = FALSE
    /\ alt_exists = FALSE
    /\ backup = <<>> /\ backup_exists = FALSE
    /\ patents = <<>> /\ cleaned_df = <<>>
    /\ loaded = FALSE /\ existing_df = <<>> /\ merged_df = <<>>
    /\ stats = NoStats /\ new_added = 0 /\ success = FALSE
    /\ runs = 0
    /\ NoCell /\ NoParty /\ NoSearch /\ NoHistory

CleanDuplicates == \E batch \in DupBatches : CleanBatch(batch)

CleanNext ==
    \/ CleanDuplicates
    \/ Merge

CleanSpec == CleanInit /\ [][CleanNext]_vars

(***************************************************************************)
(* One cell of a name column (Applicants, Inventors or Owners) on its way  *)
(* through clean() and merge_with_existing(): _standardize_institutions    *)
(* rewrites each cell on its own, whatever the rest of the row holds.      *)
(***************************************************************************)
MaxNames == 2

\* names as the extractors find them in applicant and inventor lists
NamePool ==
    {
      <<"F", "o", "u", "n", "d", "a", "t", "i", "o", "n", ",", " ", "Q",
        "a", "t", "a", "r">>,
      <<"D", "e", "v", "e", "l", "o", "p", "m", "e", "n", "t", ",", " ",
        "C", "o", "m", "m", "u", "n", "i", "t", "y">>,
      <<" ", "S", "c", "i", "e", "n", "c", "e", " ", "A", "N", "D", " ",
        "C", "o", "m", "m", "u", "n", "i", "t", "y", " ", "D", "e", "v",
        ".", ",", " ">>,
      <<"(", "f", "o", "r", " ", "x", ")">>,
      <<"A", "C", "M", "E", " ", "C", "O", "R", "P", ".", " ", "[", "U",
        "S", "]">>,
      <<"Q", "a", "t", "a", "r", " ", "F", "o", "u", "n", "d", "a", "t",
        "i", "o", "n", " ", "f", "o", "r", " ", "E", "d", "u", "c", "a",
        "t", "i", "o", "n", " ", "S", "c", "i", "e", "n", "c", "e">>,
      <<"X">>,
      <<"Q", "a", "t", "a", "r", " ", "U", "n", "i", "v", "e", "r", "s",
        "i", "t", "y", " ", "Q", "a", "t", "a", "r", " ", "F", "o", "u",
        "n", "d", "a", "t", "i", "o", "n">>
    }

\* lists of applicants, inventors or owners: up to MaxNames names, and one
\* list that spells the same name three times
ApplicantLists ==
    SeqsUpTo(NamePool, MaxNames) \cup
    { << <<"A", "C", "M", "E", " ", "C", "o", "r", "p">>,
         <<"a", "c", "m", "e", " ", "c", "o", "r", "p">>,
         <<"A", "C", "M", "E", " ", "C", "O", "R", "P", ".">> >> }

\* '; '.join(applicants)
ExtractedFields ==
    {str_join(names, <<";", " ">>) : names \in ApplicantLists}

\* pd.read_excel of one cell
read_cell(value) == IF value = <<>> THEN NaN ELSE value

CellInit ==
    /\ pc = "idle"
    /\ upload = <<>> /\ upload_exists = FALSE
    /\ master = <<>> /\ master_exists = FALSE
    /\ alt_exists = FALSE
    /\ backup = <<>> /\ backup_exists = FALSE
    /\ patents = <<>> /\ cleaned_df = <<>>
    /\ loaded = FALSE /\ existing_df = <<>> /\ merged_df = <<>>
    /\ stats = NoStats /\ new_added = 0 /\ success = FALSE
    /\ runs = 0
    /\ \/ /\ raw \in ExtractedFields
          /\ field = raw
          /\ phase = "extracted"
       \/ /\ raw \in ExtractedFields
          /\ field = read_cell(raw)
          /\ phase = "loaded"
    /\ NoParty /\ NoSearch /\ NoHistory

\* clean(), step 3, on a cell of the batch
CleanCell ==
    /\ phase = "extracted"
    /\ field' = clean_name_field(field)
    /\ phase' = "cleaned"
    /\ UNCHANGED <<raw, run_vars, party_vars, search_vars, history_vars>>

\* merge_with_existing, final pass, on a cell of a truly-new row
MergeNewCell ==
    /\ phase = "cleaned"
    /\ field' = clean_name_field(field)
    /\ phase' = "merged"
    /\ UNCHANGED <<raw, run_vars, party_vars, search_vars, history_vars>>

\* merge_with_existing, first pass over existing_df
StandardizeExistingCell ==
    /\ phase = "loaded"
    /\ field' = clean_name_field(field)
    /\ phase' = "standardized"
    /\ UNCHANGED <<raw, run_vars, party_vars, search_vars, history_vars>>

\* merge_with_existing, final pass, on a cell of an existing row
MergeExistingCell ==
    /\ phase = "standardized"
    /\ field' = clean_name_field(field)
    /\ phase' = "merged"
    /\ UNCHANGED <<raw, run_vars, party_vars, search_vars, history_vars>>

\* the merged dataset is saved, and uploaded as the list of a later run
ReloadCell ==
    /\ phase = "merged"
    /\ field' = read_cell(field)
    /\ phase' = "loaded"
    /\ UNCHANGED <<raw, run_vars, party_vars, search_vars, history_vars>>

CellNext ==
    \/ CleanCell
    \/ MergeNewCell
    \/ StandardizeExistingCell
    \/ MergeExistingCell
    \/ ReloadCell

CellSpec == CellInit /\ [][CellNext]_vars

(***************************************************************************)
(* The classifiers applied to one party of a Lens record.                  *)
(***************************************************************************)
\* extracted_name values of applicants and owners
PartyNames ==
    {
      \* ''
      <<>>,
      \* ' '
      <<" ">>,
      \* 'Siemens HBKU'
      <<"S", "i", "e", "m", "e", "n", "s", " ", "H", "B", "K", "U">>,
      \* 'Acme GmbH'
      <<"A", "c", "m", "e", " ", "G", "m", "b", "H">>,
      \* 'Siemens Qatar'
      <<"S", "i", "e", "m", "e", "n", "s", " ", "Q", "a", "t", "a", "r">>,
      \* 'Georgetown University'
      <<"G", "e", "o", "r", "g", "e", "t", "o", "w", "n", " ", "U", "n", "i",
        "v", "e", "r", "s", "i", "t", "y">>,
      \* 'Texas A&M'
      <<"T", "e", "x", "a", "s", " ", "A", "&", "M">>,
      \* 'College of the North Atlantic'
      <<"C", "o", "l", "l", "e", "g", "e", " ", "o", "f", " ", "t", "h", "e",
        " ", "N", "o", "r", "t", "h", " ", "A", "t", "l", "a", "n", "t", "i",
        "c">>,
      \* 'Qatar University'
      <<"Q", "a", "t", "a", "r", " ", "U", "n", "i", "v", "e", "r", "s", "i",
        "t", "y">>,
      \* 'Zzz'
      <<"Z", "z", "z">>,
      \* 'John Smith'
      <<"J", "o", "h", "n", " ", "S", "m", "i", "t", "h">>,
      \* 'Nicolas Cage'
      <<"N", "i", "c", "o", "l", "a", "s", " ", "C", "a", "g", "e">>,
      \* 'Maersk Oil'
      <<"M", "a", "e", "r", "s", "k", " ", "O", "i", "l">>,
      \* 'X 9 Y'
      <<"X", " ", "9", " ", "Y">>,
      \* 'K'
      <<"K">> }

\* residence and country codes of a party ('' when the record has none)
Codes == {<<>>, QA, <<"U", "S">>}

ClassInit ==
    /\ NoRun /\ NoCell /\ NoSearch /\ NoHistory
    /\ party \in [name : PartyNames, residence : Codes, country : Codes]
    /\ calls = {}
    /\ organization = FALSE /\ qatar = FALSE

IsOrganization ==
    /\ "_is_organization" \notin calls
    /\ organization' = _is_organization(party.name)
    /\ calls' = calls \cup {"_is_organization"}
    /\ UNCHANGED <<party, qatar, run_vars, cell_vars, search_vars,
                   history_vars>>

IsQatarOrganization ==
    /\ "_is_qatar_organization" \notin calls
    /\ qatar' = _is_qatar_organization(party.name, party.residence,
                                        party.country)
    /\ calls' = calls \cup {"_is_qatar_organization"}
    /\ UNCHANGED <<party, organization, run_vars, cell_vars, search_vars,
                   history_vars>>

ClassNext ==
    \/ IsOrganization
    \/ IsQatarOrganization

ClassSpec == ClassInit /\ [][ClassNext]_vars

(***************************************************************************)
(* LensExtractor.search_patents: the paging loop over the Lens.org API.     *)
(* lens_pc is the position of the call: "request" (the loop test has       *)
(* passed, requests.post is under way), "sleep" (inside time.sleep, before *)
(* the loop test), "returned".  A record of the API is an opaque value.    *)
(***************************************************************************)
\* config.py: 5000 and 100, scaled down
LENS_MAX_RESULTS == 4

LENS_BATCH_SIZE == 2

\* largest 'total' a response reports
MaxTotal == 5

\* records the API can return
ApiRecords == {"h1", "h2"}

\* query['size'] of the request under way
size == Min(LENS_BATCH_SIZE, max_results - Len(all_patents))

\* max_results = max_results or LENS_MAX_RESULTS
SearchInit ==
    /\ NoRun /\ NoCell /\ NoParty /\ NoHistory
    /\ \E arg \in 0 .. LENS_MAX_RESULTS :
          max_results = IF arg = 0 THEN LENS_MAX_RESULTS ELSE arg
    /\ all_patents = <<>> /\ offset = 0
    /\ lens_stats = [searched |-> 0, errors |-> 0]
    /\ lens_pc = "request"

\* the statements after the loop
Return(found, errors) ==
    /\ lens_pc' = "returned"
    /\ lens_stats' = [searched |-> Len(found), errors |-> errors]

\* status 200 with an empty 'data'
Response200Empty ==
    /\ lens_pc = "request"
    /\ Return(all_patents, lens_stats.errors)
    /\ UNCHANGED <<max_results, all_patents, offset, run_vars, cell_vars,
                   party_vars, history_vars>>

\* status 200 with at most 'size' records and a 'total'
Response200Data ==
    /\ lens_pc = "request"
    /\ \E n \in 1 .. size, total \in 0 .. MaxTotal :
          \E results \in [1 .. n -> ApiRecords] :
             /\ all_patents' = all_patents \o results
             /\ offset' = offset + Len(results)
             /\ IF Len(all_patents') >= total
                THEN Return(all_patents', lens_stats.errors)
                ELSE lens_pc' = "sleep" /\ UNCHANGED lens_stats
    /\ UNCHANGED <<max_results, run_vars, cell_vars, party_vars,
                   history_vars>>

Response401 ==
    /\ lens_pc = "request"
    /\ Return(all_patents, lens_stats.errors)
    /\ UNCHANGED <<max_results, all_patents, offset, run_vars, cell_vars,
                   party_vars, history_vars>>

\* status 429: time.sleep(60), then continue
Response429 ==
    /\ lens_pc = "request"
    /\ lens_pc' = "sleep"
    /\ UNCHANGED <<max_results, all_patents, offset, lens_stats, run_vars,
                   cell_vars, party_vars, history_vars>>

\* any other status
ResponseOther ==
    /\ lens_pc = "request"
    /\ Return(all_patents, lens_stats.errors + 1)
    /\ UNCHANGED <<max_results, all_patents, offset, run_vars, cell_vars,
                   party_vars, history_vars>>

\* requests.post, or response.json, raises
RequestException ==
    /\ lens_pc = "request"
    /\ Return(all_patents, lens_stats.errors + 1)
    /\ UNCHANGED <<max_results, all_patents, offset, run_vars, cell_vars,
                   party_vars, history_vars>>

\* time.sleep returns: the loop test
Wake ==
    /\ lens_pc = "sleep"
    /\ IF Len(all_patents) < max_results
       THEN lens_pc' = "request" /\ UNCHANGED lens_stats
       ELSE Return(all_patents, lens_stats.errors)
    /\ UNCHANGED <<max_results, all_patents, offset, run_vars, cell_vars,
                   party_vars, history_vars>>

SearchNext ==
    \/ Response200Empty
    \/ Response200Data
    \/ Response401
    \/ Response429
    \/ ResponseOther
    \/ RequestException
    \/ Wake

SearchSpec == SearchInit /\ [][SearchNext]_vars

\* the thread of search_patents keeps running
SearchFairSpec == SearchSpec /\ WF_vars(SearchNext)

(***************************************************************************)
(* PipelineState: the run history kept in the state file.  A timestamp is  *)
(* the reading of the clock, a positive number; 0 stands for None.  Of a   *)
(* run_info the model keeps timestamp, new_patents_added, total_after and  *)
(* source; the other fields are copied from the statistics and never read. *)
(***************************************************************************)
\* 'Keep only last 100 runs'
HistoryLimit == 100

\* calls of record_run in one behaviour
MaxRecords == 2

\* largest new_added and total_after of a run's statistics
MaxAdded == 1

\* numbers of runs in the state file that is loaded
LoadedRuns == {0, 1, HistoryLimit - 1, HistoryLimit}

\* the clock when the state file is loaded
Epoch == HistoryLimit

\* the statistics handed to record_run
RunStats ==
    [new_added : 0 .. MaxAdded, total_after : 0 .. MaxAdded,
     source : Sources]

\* self.state['runs'][-n:]
LastRuns(r, n) ==
    IF Len(r) <= n THEN r ELSE SubSeq(r, Len(r) - n + 1, Len(r))

\* a state file record_run wrote earlier, holding k runs
LoadedState(k) ==
    IF k = 0 THEN DefaultState
    ELSE [last_run |-> Epoch,
          runs |-> [i \in 1 .. k |->
                      [timestamp |-> Epoch - k + i, new_patents_added |-> 0,
                       total_after |-> 1, source |-> "EPO+LENS"]],
          total_patents |-> 1,
          sources |-> [s \in Sources |-> 0]]

record_run_keep_oldest(st, run_stats, timestamp) ==
    [last_run |-> timestamp,
     runs |-> SubSeq(Append(st.runs,
                            [timestamp |-> timestamp,
                             new_patents_added |-> run_stats.new_added,
                             total_after |-> run_stats.total_after,
                             source |-> run_stats.source]),
                     1, Min(Len(st.runs) + 1, HistoryLimit)),
     total_patents |-> run_stats.total_after,
     sources |-> [st.sources EXCEPT ![run_stats.source] =
                                        @ + run_stats.new_added]]

record_run(st, run_stats, timestamp) ==
    [last_run |-> timestamp,
     runs |-> LastRuns(Append(st.runs,
                              [timestamp |-> timestamp,
                               new_patents_added |-> run_stats.new_added,
                               total_after |-> run_stats.total_after,
                               source |-> run_stats.source]),
                       HistoryLimit),
     total_patents |-> run_stats.total_after,
     sources |-> [st.sources EXCEPT ![run_stats.source] =
                                        @ + run_stats.new_added]]

HistoryInit ==
    /\ NoRun /\ NoCell /\ NoParty /\ NoSearch
    /\ now = Epoch
    /\ \E k \in LoadedRuns : state = LoadedState(k)

\* datetime.now() is later than at the call before
RecordRun ==
    /\ now < Epoch + MaxRecords
    /\ now' = now + 1
    /\ \E run_stats \in RunStats :
          state' = record_run(state, run_stats, now')
    /\ UNCHANGED <<run_vars, cell_vars, party_vars, search_vars>>

HistoryNext == RecordRun

HistorySpec == HistoryInit /\ [][HistoryNext]_vars

(***************************************************************************)
(* Properties of merge_with_existing and clean.                            *)
(***************************************************************************)
Merged == pc = "merged" /\ loaded

\* the existing rows as merge_with_existing compares and returns them
ExistingStd == _clean_text_fields(existing_df)

NumExisting == Len(existing_df)

NumAdded == Len(merged_df) - Len(existing_df)

DistinctIds(df) ==
    \A i, j \in 1..Len(df) : i # j => df[i].ResourceId # df[j].ResourceId

SameRecord(a, b) ==
    a.ApplicationNumber = b.ApplicationNumber /\ a.Title = b.Title

\* row i of the cleaned batch is among the rows appended by the merge
Appended(i) ==
    \E j \in (NumExisting + 1)..Len(merged_df) :
        SameRecord(merged_df[j], cleaned_df[i])

AppKeyKnown(i) ==
    normalize_app_num(cleaned_df[i].ApplicationNumber)
        \in existing_apps(ExistingStd)

TitleKeyKnown(i) ==
    title_norm(cleaned_df[i].Title) \in existing_titles(ExistingStd)

\* C1: merging the same cleaned batch into the result of its own merge (as
\* returned, or as read back from the file it was saved to) adds no record:
\* the second merge returns exactly as many rows as the first (new_count 0).
C1_RemergeAddsNothing ==
    Merged =>
        /\ Len(merge_with_existing(cleaned_df, merged_df)) = Len(merged_df)
        /\ Len(merge_with_existing(cleaned_df, read_excel(merged_df)))
               = Len(merged_df)

C1_Witness == Merged /\ NumExisting > 0 /\ NumAdded > 0

\* C2: a batch record is appended by the merge if and only if neither its
\* normalized application number nor its title key is among the existing
\* records' keys; a match on one key alone makes it a duplicate.
C2_AppendedIffBothKeysNew ==
    Merged =>
        \A i \in 1..Len(cleaned_df) :
            Appended(i) <=> (~AppKeyKnown(i) /\ ~TitleKeyKnown(i))

C2_Witness ==
    /\ Merged
    /\ \E i \in 1..Len(cleaned_df) :
           AppKeyKnown(i) /\ ~TitleKeyKnown(i) /\ ~Appended(i)
    /\ \E i \in 1..Len(cleaned_df) :
           ~AppKeyKnown(i) /\ TitleKeyKnown(i) /\ ~Appended(i)

\* C3: from an uploaded list with pairwise distinct ResourceIds (or none),
\* every dataset clean() and merge_with_existing() return, and every master
\* file saved, has pairwise distinct ResourceIds.
C3_ResourceIdsUnique ==
    /\ DistinctIds(cleaned_df)
    /\ DistinctIds(merged_df)
    /\ DistinctIds(master)

C3_Witness == Merged /\ NumExisting >= 2 /\ NumAdded >= 2

\* C4: the merged dataset is the existing rows, in their order and with their
\* ResourceIds, followed by the added rows, whose ResourceIds are all greater
\* than every existing ResourceId.
C4_ExistingIdsKept ==
    Merged =>
        /\ Len(merged_df) >= NumExisting
        /\ \A i \in 1..NumExisting :
            /\ merged_df[i].ResourceId = existing_df[i].ResourceId
            /\ merged_df[i] = ExistingStd[i]
        /\ \A j \in (NumExisting + 1)..Len(merged_df) :
            \A i \in 1..NumExisting :
                merged_df[j].ResourceId > existing_df[i].ResourceId

C4_Witness ==
    /\ Merged /\ NumExisting >= 2 /\ NumAdded > 0
    /\ existing_df[1].ResourceId > existing_df[2].ResourceId

\* the place in the cleaned batch of an appended row
BatchIndex(row) ==
    CHOOSE i \in 1..Len(cleaned_df) : SameRecord(cleaned_df[i], row)

LargestExistingId ==
    CHOOSE m \in {existing_df[i].ResourceId : i \in 1..NumExisting} :
        \A i \in 1..NumExisting : existing_df[i].ResourceId <= m

\* C5: with a non-empty existing dataset of largest ResourceId M, the k added
\* records get exactly M+1 .. M+k, in the order they have within the batch.
C5_ContiguousIdsInBatchOrder ==
    (Merged /\ NumExisting > 0) =>
        /\ \A t \in 1..NumAdded :
            merged_df[NumExisting + t].ResourceId = LargestExistingId + t
        /\ \A t, u \in 1..NumAdded :
            t < u => BatchIndex(merged_df[NumExisting + t])
                         < BatchIndex(merged_df[NumExisting + u])

C5_Witness ==
    /\ Merged /\ NumExisting >= 2 /\ NumAdded >= 2
    /\ existing_df[NumExisting].ResourceId # LargestExistingId

\* C6: merged into an empty existing dataset, the truly-new records get
\* ResourceIds starting exactly at the floor value clean() starts at, so a
\* one-record batch ends with ResourceId = floor and new_count = 1.
C6_FloorOnEmptyExisting ==
    (Merged /\ NumExisting = 0 /\ Len(cleaned_df) = 1) =>
        /\ new_added = 1
        /\ merged_df[1].ResourceId = ResourceIdFloor
        /\ merged_df[1].ResourceId = cleaned_df[1].ResourceId

\* C7: merging an empty batch returns the existing dataset: the same number of
\* rows, in the same order, the same ResourceId on every row, new_count = 0.
C7_EmptyBatchChangesNothing ==
    (Merged /\ Len(cleaned_df) = 0) =>
        /\ Len(merged_df) = NumExisting
        /\ \A i \in 1..NumExisting :
            /\ merged_df[i].ResourceId = existing_df[i].ResourceId
            /\ merged_df[i] = ExistingStd[i]
        /\ new_added = 0

C7_Witness == Merged /\ Len(cleaned_df) = 0 /\ NumExisting >= 2

DistinctAppKeys(df) ==
    \A i, j \in 1..Len(df) :
        i # j => normalize_app_num(df[i].ApplicationNumber)
                     # normalize_app_num(df[j].ApplicationNumber)

\* C8: when the existing dataset has pairwise distinct normalized application
\* numbers, so has the merged dataset: of two batch records whose application
\* numbers are equal after normalization only one is in the result.
C8_NormalizedAppNumbersUnique ==
    (Merged /\ DistinctAppKeys(existing_df)) => DistinctAppKeys(merged_df)

\* C9: every record of the dataset clean() returns, and of the dataset handed
\* to save, has a non-empty Title, for every batch the extractors produce.
C9_TitlesNonEmpty ==
    /\ \A i \in 1..Len(cleaned_df) : cleaned_df[i].Title # <<>>
    /\ \A i \in (NumExisting + 1)..Len(merged_df) : merged_df[i].Title # <<>>

\* C10: a batch record with an empty ApplicationNumber never appears in the
\* output of clean(), and its removal is counted in the statistics.
C10_EmptyAppNumberDropped ==
    pc = "cleaned" =>
        /\ \A i \in 1..Len(cleaned_df) :
            cleaned_df[i].ApplicationNumber # <<>>
        /\ stats.input_count - stats.output_count >=
               Cardinality({i \in 1..Len(patents) :
                               patents[i].ApplicationNumber = <<>>})

(***************************************************************************)
(* Properties of _deduplicate.                                             *)
(***************************************************************************)
\* the DataFrame _deduplicate receives inside clean()
DedupInput == _clean_text_fields(_remove_non_english(patents))

\* rows of df that are the first of their verbatim ApplicationNumber
FirstOfApp(df) ==
    {i \in 1..Len(df) :
        \A j \in 1..(i - 1) :
            df[j].ApplicationNumber # df[i].ApplicationNumber}

\* among the rows first, those that are the first of their title key
FirstOfTitle(df, first) ==
    {i \in first :
        \A j \in first :
            j < i => title_norm(df[j].Title) # title_norm(df[i].Title)}

\* the k-th smallest member of kept
Survivor(kept, k) ==
    CHOOSE i \in kept : Cardinality({j \in kept : j <= i}) = k

C26_RemovedHasSurvivingDuplicate ==
    pc = "cleaned" =>
        \A df \in {DedupInput} :
            \A i \in 1..Len(df) :
                \E k \in 1..Len(cleaned_df) :
                    \/ cleaned_df[k].ApplicationNumber
                           = df[i].ApplicationNumber
                    \/ title_norm(cleaned_df[k].Title)
                           = title_norm(df[i].Title)

(***************************************************************************)
(* Properties of the statistics of clean().                                *)
(***************************************************************************)
\* C28: after clean() input_count = output_count + non_english_removed +
\* duplicates_removed, the counters are those of this call (the size of its
\* batch, of its output, the records it dropped), and the records kept are
\* those clean() keeps whatever the counters were.
C28_StatsAddUp ==
    pc = "cleaned" =>
        /\ stats.input_count =
               stats.output_count + stats.non_english_removed
                   + stats.duplicates_removed
        /\ stats.input_count = Len(patents)
        /\ stats.output_count = Len(cleaned_df)
        /\ stats.non_english_removed =
               Cardinality({i \in 1..Len(patents) : non_english(patents[i])})
        /\ cleaned_df = clean(patents)

\* a call that drops a non-English record and a duplicate
C28_Witness ==
    /\ pc = "cleaned"
    /\ stats.non_english_removed > 0
    /\ stats.duplicates_removed > 0
    /\ stats.output_count > 0

(***************************************************************************)
(* Frame of merge_with_existing.                                           *)
(***************************************************************************)
\* C29: a call of merge_with_existing leaves the caller's new_df (cleaned_df)
\* and existing_df (as load_existing returned it) with the columns and the
\* values they had before the call.
C29_MergeLeavesArguments ==
    [][(pc = "cleaned" /\ pc' = "merged" /\ loaded') =>
          /\ cleaned_df' = cleaned_df
          /\ existing_df' = read_excel(upload)]_vars

(***************************************************************************)
(* Properties of ExcelLoader.save and of the run's counters.               *)
(***************************************************************************)
\* C18: save returns True only if the requested file (the master file) holds
\* the dataset it was given; whenever the dataset was not written there it
\* returns False.
C18_TrueOnlyIfMasterWritten ==
    (pc = "saved" /\ success) => (master_exists /\ master = merged_df)

\* C19: whenever save, with backup enabled, overwrites an existing master
\* file, a backup holding that file's prior contents has been written.
C19_BackupBeforeOverwrite ==
    [][(pc = "merged" /\ master_exists /\ master' # master)
          => (backup_exists' /\ backup' = read_excel(master))]_vars

\* batch rows neither of whose keys is among the existing records' keys
TrulyNew == {i \in 1..Len(cleaned_df) : ~AppKeyKnown(i) /\ ~TitleKeyKnown(i)}

\* C20: new_count, the size of the merged dataset minus the number of
\* existing records as loaded, is the number of truly-new batch records,
\* and that many rows follow the existing rows in the merged dataset.
C20_NewCountIsTrulyNew ==
    /\ Merged =>
        /\ new_added = Cardinality(TrulyNew)
        /\ Len(merged_df) = NumExisting + Cardinality(TrulyNew)
        /\ \A i \in TrulyNew : Appended(i)
    /\ (pc = "merged" /\ ~loaded) => new_added = Len(cleaned_df)

C20_Witness ==
    /\ Merged /\ NumExisting > 0
    /\ new_added = 1 /\ Len(cleaned_df) = 2

(***************************************************************************)
(* Properties of the dates.                                                *)
(***************************************************************************)
\* ApplicationDate is still written YYYYMMDD
EightDigits(d) == ~isna(d) /\ Len(d) = 8 /\ isdigit(d)

YearOfDate(row) ==
    \/ row.PatentYear = <<>>
    \/ isna(row.PatentYear)
    \/ /\ ~EightDigits(row.ApplicationDate)
       /\ row.PatentYear = Prefix(row.ApplicationDate, 4)

\* C17: in every record clean() returned and in every record
\* merge_with_existing() returned, the existing rows included, PatentYear is
\* empty or is the first 4 characters of the record's ApplicationDate, and
\* that date is no longer written as 8 digits.
C17_YearIsPrefixOfDate ==
    /\ \A i \in 1..Len(cleaned_df) : YearOfDate(cleaned_df[i])
    /\ pc = "merged" => \A i \in 1..Len(merged_df) : YearOfDate(merged_df[i])

(***************************************************************************)
(* Properties of the classifiers.                                          *)
(***************************************************************************)
OrgCalled == "_is_organization" \in calls

QatarCalled == "_is_qatar_organization" \in calls

PartyLower == str_strip(str_lower(party.name))

\* the foreign-company rule rejects the name
ForeignRejected(name_lower) ==
    foreign_hit(name_lower) /\ ~names_qatar(name_lower)

\* C21: a name that hits the foreign-company rule and holds neither 'qatar'
\* nor 'doha' is not a Qatari organization, whatever its residence and
\* country and whatever identifier it also holds.
C21_ForeignOverridesMetadata ==
    \A name_lower \in {PartyLower} :
        (QatarCalled /\ ForeignRejected(name_lower)) => ~qatar

\* 'Siemens HBKU' with residence QA is rejected
C21_Witness ==
    /\ QatarCalled
    /\ ForeignRejected(PartyLower)
    /\ ContainsAny(qatar_identifiers, PartyLower)
    /\ party.residence = QA /\ party.country = QA
    /\ ~qatar

\* C22: a name with a dual-campus fragment that the foreign-company rule
\* does not reject and that holds no Qatar identifier is a Qatari
\* organization exactly when its residence or its country is 'QA', also when
\* the registry would match it.
C22_DualCampusByMetadata ==
    \A name_lower \in {PartyLower} :
        (/\ QatarCalled
         /\ ContainsAny(edu_city_names, name_lower)
         /\ ~ForeignRejected(name_lower)
         /\ ~ContainsAny(qatar_identifiers, name_lower))
            => (qatar <=> (party.residence = QA \/ party.country = QA))

\* 'Georgetown University', part of a registry entry, is rejected abroad
C22_Witness ==
    /\ QatarCalled
    /\ ContainsAny(edu_city_names, PartyLower)
    /\ ~ForeignRejected(PartyLower)
    /\ ~ContainsAny(qatar_identifiers, PartyLower)
    /\ registry_match(PartyLower)
    /\ party.residence # QA /\ party.country # QA
    /\ ~qatar

\* C23: for a name without a dual-campus fragment the result is the same for
\* all values of residence and country.
C23_MetadataAloneNeverDecides ==
    (QatarCalled /\ ~ContainsAny(edu_city_names, PartyLower)) =>
        \A residence \in Codes, country \in Codes :
            _is_qatar_organization(party.name, residence, country) = qatar

\* an organization without a Qatari name is rejected with residence and
\* country QA
C23_Witness ==
    /\ QatarCalled /\ OrgCalled
    /\ organization
    /\ ~ContainsAny(edu_city_names, PartyLower)
    /\ ~ForeignRejected(PartyLower)
    /\ party.residence = QA /\ party.country = QA
    /\ ~qatar

\* a name that is not blank and gives no signal to either classifier
NoSignal(name, name_lower) ==
    /\ name_lower # <<>>
    /\ ~ContainsAny(ORGANIZATION_KEYWORDS, name_lower)
    /\ ~registry_match(name_lower)
    /\ ~looks_like_person(name, name_lower)
    /\ ~foreign_hit(name_lower)
    /\ ~ContainsAny(qatar_identifiers, name_lower)
    /\ ~ContainsAny(edu_city_names, name_lower)

\* C24: a name that gives no signal is an organization and is not a Qatari
\* organization; and no name is a Qatari organization without being an
\* organization.
C24_OppositeDefaults ==
    \A name_lower \in {PartyLower} :
        /\ (OrgCalled /\ NoSignal(party.name, name_lower)) => organization
        /\ (QatarCalled /\ NoSignal(party.name, name_lower)) => ~qatar
        /\ (OrgCalled /\ QatarCalled /\ qatar) => organization

C24_Witness ==
    /\ OrgCalled /\ QatarCalled
    /\ NoSignal(party.name, PartyLower)
    /\ organization /\ ~qatar

\* C25: _is_organization depends on the name alone, is False for the empty
\* name and True for every name whose lower-cased form holds an organization
\* keyword.
C25_KeywordAlwaysOrganization ==
    OrgCalled =>
        /\ organization = _is_organization(party.name)
        /\ party.name = <<>> => ~organization
        /\ ContainsAny(ORGANIZATION_KEYWORDS, str_lower(party.name))
               => organization

\* 'Nicolas Cage' fits the heuristic for a person and holds the keyword 'co'
C25_Witness ==
    /\ OrgCalled
    /\ ContainsAny(ORGANIZATION_KEYWORDS, str_lower(party.name))
    /\ looks_like_person(party.name, PartyLower)
    /\ organization

(***************************************************************************)
(* Termination of search_patents.                                          *)
(***************************************************************************)
\* C27: search_patents terminates for every sequence of API responses; a
\* rate-limit (429) response leads to a bounded number of retries.
C27_SearchTerminates == <>(lens_pc = "returned")

(***************************************************************************)
(* Properties of the run history.                                          *)
(***************************************************************************)
\* C30: after every call of record_run the run list holds at most 100
\* entries; they are the run just recorded, preceded by the most recent of
\* the runs held before in the order they had, with increasing timestamps;
\* last_run is the timestamp of the newest entry and total_patents its
\* total_after.
C30_RunHistory ==
    [][now' # now =>
          \A r \in {state'.runs} : \A n \in {Len(r)} :
             /\ n = Min(Len(state.runs) + 1, HistoryLimit)
             /\ r[n].timestamp = now'
             /\ \A i \in 1 .. n - 1 :
                   /\ r[i] = state.runs[Len(state.runs) - (n - 1) + i]
                   /\ r[i].timestamp < r[i + 1].timestamp
             /\ state'.last_run = r[n].timestamp
             /\ state'.total_patents = r[n].total_after]_vars

\* a run was recorded on a full list and the oldest run was dropped
C30_Witness ==
    /\ now > Epoch
    /\ Len(state.runs) = HistoryLimit
    /\ state.runs[1].timestamp > 1
    /\ state.runs[HistoryLimit].timestamp = now

(***************************************************************************)
(* Properties of the name standardizer.                                    *)
(***************************************************************************)
\* the cell has been through clean_name_field at least once
Standardized == phase \in {"cleaned", "standardized", "merged"}

\* the cell was extracted as one name, and clean() has rewritten it
OneNameCleaned ==
    /\ phase = "cleaned"
    /\ raw # <<>>
    /\ \A i \in 1..Len(raw) : raw[i] # ";"

\* the semicolon-separated entries of a cell, as a set of <<place, entry>>
EntrySet(value) ==
    IF isna(value) \/ value = <<>> THEN {}
    ELSE {<<k, str_strip(str_split(value, ";")[k])>> :
             k \in 1..Len(str_split(value, ";"))}

\* the parts of a raw cell, each standardized, as a set of <<place, name>>
StandardizedParts(value) ==
    {<<k, standardize_name(str_split(value, ";")[k])>> :
        k \in 1..Len(str_split(value, ";"))}

\* C12: standardizing is idempotent: a cell the cleaner has rewritten is left
\* as it is by another pass (so the pass a later merge makes over existing
\* rows changes nothing), and standardize(standardize(n)) = standardize(n).
C12_StandardizeIdempotent ==
    /\ Standardized => clean_name_field(field) = field
    /\ OneNameCleaned =>
           \A once \in {standardize_name(raw)} :
               standardize_name(once) = once

\* C13: in the datasets clean() and merge_with_existing() return, no entry of
\* a name cell matches a discard pattern.
C13_NoDiscardedEntryInOutput ==
    phase \in {"cleaned", "merged"} =>
        \A e \in EntrySet(field) : ~is_garbage(str_lower(e[2]))

\* C14: a standardized cell never holds two entries with the same normalized
\* key (lower-cased, non-alphanumerics removed) nor an entry whose key has
\* fewer than two characters; of the parts with one key the first is kept.
C14_EntriesDistinctFirstKept ==
    /\ Standardized =>
           \A E \in {EntrySet(field)} :
               /\ \A a, b \in E : a[1] # b[1] => norm_key(a[2]) # norm_key(b[2])
               /\ \A a \in E : Len(norm_key(a[2])) >= 2
    /\ phase = "cleaned" =>
           \A E \in {EntrySet(field)} :
               \A S \in {StandardizedParts(raw)} :
                   /\ \A a \in E : \E x \in S : x[2] = a[2]
                   /\ \A x \in S :
                       Len(norm_key(x[2])) >= 2 =>
                           \E a \in E : \E y \in S :
                               /\ a[2] = y[2]
                               /\ norm_key(y[2]) = norm_key(x[2])
                               /\ \A z \in S :
                                   norm_key(z[2]) = norm_key(x[2])
                                       => y[1] <= z[1]

\* three spellings of one name are extracted, and one entry is left
C14_Witness ==
    /\ phase = "cleaned"
    /\ Cardinality(EntrySet(raw)) = 3
    /\ Cardinality({norm_key(e[2]) : e \in EntrySet(raw)}) = 1
    /\ Cardinality(EntrySet(field)) = 1

\* the characters standardize_name strips from both ends of a name
StrippedChars == {" ", ",", ";", "."}

\* punctuation that can surround a name
Punctuation == {",", ";", ".", ":", "(", ")", "-", "'"}

\* the name without what surrounds it matches a discard pattern
Discardable(name, surrounding) ==
    is_garbage(str_lower(strip_chars(name, surrounding)))

\* C15 (as claimed): a name that matches a discard pattern is standardized
\* to the empty text, whatever its letter case and whatever punctuation or
\* whitespace surrounds it.
C15_DiscardedWhateverSurrounds ==
    (OneNameCleaned /\ Discardable(raw, Punctuation \cup Whitespace)) =>
        field = <<>>

\* C15 (amended): a name that matches a discard pattern is standardized to
\* the empty text, whatever its letter case, when only spaces, commas,
\* semicolons and periods surround it.
C15_DiscardedWithinStrippedChars ==
    (OneNameCleaned /\ Discardable(raw, StrippedChars)) =>
        field = <<>> /\ standardize_name(raw) = <<>>

C15_Witness ==
    /\ OneNameCleaned /\ Discardable(raw, StrippedChars)
    /\ raw # strip_chars(raw, StrippedChars)
    /\ raw # str_lower(raw)
    /\ field = <<>>

\* the name as standardize_name compares it with the patterns
NameLower(name) == str_strip(str_lower(strip_name(name)))

\* the places of the patterns that match at the start of the name
Hits(name_lower) ==
    {i \in 1..Len(INSTITUTION_STANDARDS) :
        re_match(INSTITUTION_STANDARDS[i].pattern, name_lower)}

====
